---------------------------- MODULE Spec2Model ----------------------------
(***************************************************************************)
(* Model of the LinXup intelligent analysis pipeline:                      *)
(*   - LinXupChecker.checkWithIntelligence (src/src/linxup-checker.ts)     *)
(*   - GeminiLinkAnalyzer.analyzeContext and its helpers                   *)
(*     (src/src/test-db.ts, lines 162-479)                                 *)
(*   - the Database gateway (src/unnamed/part_000)                         *)
(* Strings are TLA+ strings; JavaScript values that come out of JSON.parse *)
(* are tagged records (see JS VALUES).                                     *)
(***************************************************************************)
EXTENDS Integers, Sequences, FiniteSets, TLC

VARIABLES
    \* ---- one run of checkWithIntelligence ----
    pc,                 \* position of the async function (the await it is at)
    includeWayback,     \* this.includeWayback (constructor argument)
    scan,               \* the scan_results row of this run
    dbLinks,            \* the broken_links rows of this run, by id
    crawlLinks,         \* crawlResult.links
    i,                  \* loop index over brokenLinks (1-based)
    aiAnalysis,         \* the local aiAnalysis of the current iteration
    recId,              \* brokenLinkRecord.id of the current iteration
    brokenLinksWithAI,  \* the local result list
    error,              \* the error caught by the outer catch
    outcome,            \* how the call ended: returned value or rejection
    hist,               \* observation of the calls made (not program state)
    \* ---- one call of analyzeContext (analyzer specification) ----
    apc,                \* position inside analyzeContext
    ainput,             \* the BrokenLinkInput
    aresp,              \* what model.generateContent did
    aparsed,            \* result of parseGeminiResponse
    aresult,            \* value returned by analyzeContext
    \* ---- one call of analyzeBatch (batch specification) ----
    bpc,                \* position inside analyzeBatch
    binputs,            \* the inputs array
    bresults,           \* the local results array
    blog,               \* observation: the AI calls and the waits, in order
    \* ---- one application of a pure function (function specification) ----
    fpc,                \* what has been applied so far
    farg,               \* the arguments
    fres,               \* the value returned
    fres2,              \* the value returned by a second call, same arguments
    fcalls              \* observation: AI provider calls made so far

vars == << pc, includeWayback, scan, dbLinks, crawlLinks, i, aiAnalysis, recId,
           brokenLinksWithAI, error, outcome, hist,
           apc, ainput, aresp, aparsed, aresult,
           bpc, binputs, bresults, blog,
           fpc, farg, fres, fres2, fcalls >>

orchVars == << pc, includeWayback, scan, dbLinks, crawlLinks, i, aiAnalysis,
               recId, brokenLinksWithAI, error, outcome, hist >>

anVars == << apc, ainput, aresp, aparsed, aresult >>

batchVars == << bpc, binputs, bresults, blog >>

funVars == << fpc, farg, fres, fres2, fcalls >>

-----------------------------------------------------------------------------
(* BOUNDS *)

\* longest crawl result (number of links the crawl returns)
MaxLinks == 3

\* injected failures (throwing collaborator calls) per run
MaxFaults == 2

\* largest link count handed to calculateHealthScore on its own
MaxTotal == 10

\* longest inputs array handed to analyzeBatch
MaxBatch == 2

\* the findings of a result handed to generateReport
MaxReport == 3

-----------------------------------------------------------------------------
(* STRINGS: the String.prototype methods the code uses *)

NL == "\n"

StartsWith(s, p) == Len(s) >= Len(p) /\ SubSeq(s, 1, Len(p)) = p

EndsWith(s, p) == Len(s) >= Len(p) /\ SubSeq(s, Len(s) - Len(p) + 1, Len(s)) = p

Includes(s, sub) ==
    \E k \in 0..(Len(s) - Len(sub)) : SubSeq(s, k + 1, k + Len(sub)) = sub

CharAt(s, k) == SubSeq(s, k, k)

DropFirst(s, n) == SubSeq(s, n + 1, Len(s))

UpperAlphabet == "ABCDEFGHIJKLMNOPQRSTUVWXYZ"

LowerAlphabet == "abcdefghijklmnopqrstuvwxyz"

LowerChar(c) ==
    IF \E k \in 1..26 : CharAt(UpperAlphabet, k) = c
    THEN CharAt(LowerAlphabet, CHOOSE k \in 1..26 : CharAt(UpperAlphabet, k) = c)
    ELSE c

UpperChar(c) ==
    IF \E k \in 1..26 : CharAt(LowerAlphabet, k) = c
    THEN CharAt(UpperAlphabet, CHOOSE k \in 1..26 : CharAt(LowerAlphabet, k) = c)
    ELSE c

RECURSIVE ToLowerCase(_)
ToLowerCase(s) ==
    IF s = "" THEN "" ELSE LowerChar(CharAt(s, 1)) \o ToLowerCase(DropFirst(s, 1))

IsSpace(c) == c \in {" ", NL, "\t", "\r"}

RECURSIVE TrimStart(_)
TrimStart(s) ==
    IF s # "" /\ IsSpace(CharAt(s, 1)) THEN TrimStart(DropFirst(s, 1)) ELSE s

RECURSIVE TrimEnd(_)
TrimEnd(s) ==
    IF s # "" /\ IsSpace(CharAt(s, Len(s)))
    THEN TrimEnd(SubSeq(s, 1, Len(s) - 1))
    ELSE s

Trim(s) == TrimEnd(TrimStart(s))

\* s.indexOf(pat) + 1: the position of the first occurrence, 0 when none
IndexOf(s, pat) ==
    IF Includes(s, pat)
    THEN CHOOSE k \in 1..(Len(s) - Len(pat) + 1) :
            /\ SubSeq(s, k, k + Len(pat) - 1) = pat
            /\ \A m \in 1..(k - 1) : SubSeq(s, m, m + Len(pat) - 1) # pat
    ELSE 0

\* s.replace(/<pat>\n?/g, ''): every occurrence of pat, with one following
\* newline when there is one, is removed, scanning left to right
RECURSIVE RemoveAllWithNewline(_, _)
RemoveAllWithNewline(s, pat) ==
    IF IndexOf(s, pat) = 0 THEN s
    ELSE LET k == IndexOf(s, pat)
             rest == DropFirst(s, k - 1 + Len(pat))
         IN  SubSeq(s, 1, k - 1) \o
             RemoveAllWithNewline(
                 IF StartsWith(rest, NL) THEN DropFirst(rest, 1) ELSE rest, pat)

\* position of the last "/" of s, 0 when there is none
LastSlash(s) ==
    IF \E k \in 1..Len(s) : CharAt(s, k) = "/"
    THEN CHOOSE k \in 1..Len(s) :
            /\ CharAt(s, k) = "/"
            /\ \A m \in (k + 1)..Len(s) : CharAt(s, m) # "/"
    ELSE 0

\* a replace that leaves the last slash in place
StripLastSegmentKeepsSlash(s) ==
    IF LastSlash(s) = 0 THEN s ELSE SubSeq(s, 1, LastSlash(s))

\* s.replace(/\/[^/]*$/, '')
StripLastSegment(s) ==
    IF LastSlash(s) = 0 THEN s ELSE SubSeq(s, 1, LastSlash(s) - 1)

\* s.replace(/\/$/, '')
StripTrailingSlash(s) ==
    IF EndsWith(s, "/") THEN SubSeq(s, 1, Len(s) - 1) ELSE s

-----------------------------------------------------------------------------
(* JS VALUES: what JSON.parse can return, and the coercions applied to it.  *)
(* A number is held in tenths (n10 = 10 * value), which is exact for every  *)
(* number of the response universe below.                                   *)

Undefined == [t |-> "undefined"]

JsNull == [t |-> "null"]

Str(s) == [t |-> "string", s |-> s]

Num(n) == [t |-> "number", n10 |-> n]

Bool(b) == [t |-> "boolean", b |-> b]

Arr(a) == [t |-> "array", a |-> a]

Obj(o) == [t |-> "object", o |-> o]

IsStr(v) == v.t = "string"

\* v.key; reading a property of null or undefined is a TypeError, which the
\* callers test with Nullish before they read
Nullish(v) == v.t \in {"null", "undefined"}

Get(v, key) ==
    IF v.t = "object" /\ key \in DOMAIN v.o THEN v.o[key] ELSE Undefined

\* ToBoolean
Truthy(v) ==
    CASE v.t = "undefined" -> FALSE
      [] v.t = "null"      -> FALSE
      [] v.t = "string"    -> v.s # ""
      [] v.t = "number"    -> v.n10 # 0
      [] v.t = "boolean"   -> v.b
      [] OTHER             -> TRUE

\* a || b
OrElse(a, b) == IF Truthy(a) THEN a ELSE b

NaN == [nan |-> TRUE]

Finite(n) == [nan |-> FALSE, n10 |-> n]

\* the numeric string literals that occur in the response universe;
\* StringToNumber of any other string of the universe is NaN
NumericLiterals == ("" :> 0) @@ ("150" :> 1500) @@ ("75" :> 750)

\* StringToNumber: white space around the literal is ignored
StringToNumber(s) ==
    IF Trim(s) \in DOMAIN NumericLiterals
    THEN Finite(NumericLiterals[Trim(s)])
    ELSE NaN

\* Number(v) (ToNumber); an array is first joined to a string
ToNumber(v) ==
    CASE v.t = "undefined" -> NaN
      [] v.t = "null"      -> Finite(0)
      [] v.t = "boolean"   -> Finite(IF v.b THEN 10 ELSE 0)
      [] v.t = "number"    -> Finite(v.n10)
      [] v.t = "string"    -> StringToNumber(v.s)
      [] v.t = "array"     ->
            IF Len(v.a) = 0 THEN Finite(0)
            ELSE IF Len(v.a) = 1 /\ v.a[1].t = "number" THEN Finite(v.a[1].n10)
            ELSE IF Len(v.a) = 1 /\ v.a[1].t = "string" THEN StringToNumber(v.a[1].s)
            ELSE IF Len(v.a) = 1 /\ Nullish(v.a[1]) THEN Finite(0)
            ELSE NaN
      [] OTHER             -> NaN

\* Math.round of a number held in tenths: the nearest integer, halves up
MathRound(n) == (n + 5) \div 10

-----------------------------------------------------------------------------
(* GeminiLinkAnalyzer *)

validLevels == {"critical", "high", "medium", "low"}

\* validateImportance(importance): the argument is a JS value
validateImportance(importance) ==
    IF IsStr(importance) /\ importance.s \in validLevels
    THEN importance.s
    ELSE "medium"

\* a validatePriorityScore without the upper clamp
validatePriorityScoreUnclamped(score) ==
    LET numScore == ToNumber(score)
    IN  IF numScore.nan THEN 50
        ELSE IF numScore.n10 < 0 THEN 0
        ELSE MathRound(numScore.n10)

\* validatePriorityScore(score): the argument is a JS value
validatePriorityScore(score) ==
    LET numScore == ToNumber(score)
    IN  IF numScore.nan THEN 50
        ELSE IF numScore.n10 < 0 THEN 0
        ELSE IF numScore.n10 > 1000 THEN 100
        ELSE MathRound(numScore.n10)

\* Array.isArray(v) ? v : []
ArrayOrEmpty(v) == IF v.t = "array" THEN v.a ELSE << >>

\* an object literal with the defaults of validateAnalysis in the place of
\* those of parseGeminiResponse
AnalysisOfParsedOtherDefaults(parsed) ==
    [ intendedDestination |-> OrElse(Get(parsed, "intendedDestination"), Str("Unknown destination")),
      linkPurpose         |-> OrElse(Get(parsed, "linkPurpose"), Str("Unknown purpose")),
      importance          |-> validateImportance(Get(parsed, "importance")),
      businessImpact      |-> OrElse(Get(parsed, "businessImpact"), Str("Impact unclear")),
      suggestedFixes      |-> ArrayOrEmpty(Get(parsed, "suggestedFixes")),
      reasoning           |-> OrElse(Get(parsed, "reasoning"), Str("No reasoning available")),
      priorityScore       |-> validatePriorityScore(Get(parsed, "priorityScore")) ]

\* the object literal parseGeminiResponse returns for a parsed value
AnalysisOfParsed(parsed) ==
    [ intendedDestination |-> OrElse(Get(parsed, "intendedDestination"), Str("Unknown")),
      linkPurpose         |-> OrElse(Get(parsed, "linkPurpose"), Str("Unknown")),
      importance          |-> validateImportance(Get(parsed, "importance")),
      businessImpact      |-> OrElse(Get(parsed, "businessImpact"), Str("Unknown impact")),
      suggestedFixes      |-> ArrayOrEmpty(Get(parsed, "suggestedFixes")),
      reasoning           |-> OrElse(Get(parsed, "reasoning"), Str("No reasoning provided")),
      priorityScore       |-> validatePriorityScore(Get(parsed, "priorityScore")) ]

\* The code-fence marker (three backquotes). The module's strings cannot hold
\* a backquote, so the model writes that character as "~", which occurs in the
\* response universe only where the real text has a backquote.
FENCE == "~~~"

\* the code-fence removal at the head of parseGeminiResponse
StripFences(text) ==
    LET jsonText == Trim(text)
    IN  IF StartsWith(jsonText, FENCE \o "json")
        THEN RemoveAllWithNewline(
                 RemoveAllWithNewline(jsonText, FENCE \o "json"), FENCE)
        ELSE IF StartsWith(jsonText, FENCE)
        THEN RemoveAllWithNewline(jsonText, FENCE)
        ELSE jsonText

SliceFirst3(a) == SubSeq(a, 1, IF Len(a) < 3 THEN Len(a) ELSE 3)

\* a validateAnalysis that keeps every suggested fix (no .slice(0, 3))
validateAnalysisKeepsAll(analysis) ==
    [ intendedDestination |-> OrElse(analysis.intendedDestination, Str("Unknown destination")),
      linkPurpose         |-> OrElse(analysis.linkPurpose, Str("Unknown purpose")),
      importance          |-> validateImportance(Str(analysis.importance)),
      businessImpact      |-> OrElse(analysis.businessImpact, Str("Impact unclear")),
      suggestedFixes      |-> analysis.suggestedFixes,
      reasoning           |-> OrElse(analysis.reasoning, Str("No reasoning available")),
      priorityScore       |-> validatePriorityScore(Num(10 * analysis.priorityScore)) ]

\* validateAnalysis(analysis)
validateAnalysis(analysis) ==
    [ intendedDestination |-> OrElse(analysis.intendedDestination, Str("Unknown destination")),
      linkPurpose         |-> OrElse(analysis.linkPurpose, Str("Unknown purpose")),
      importance          |-> validateImportance(Str(analysis.importance)),
      businessImpact      |-> OrElse(analysis.businessImpact, Str("Impact unclear")),
      suggestedFixes      |-> SliceFirst3(analysis.suggestedFixes),
      reasoning           |-> OrElse(analysis.reasoning, Str("No reasoning available")),
      priorityScore       |-> validatePriorityScore(Num(10 * analysis.priorityScore)) ]

\* an if / else-if chain that tests the contact row before the donate row
FallbackTierContactFirst(linkTextLower, urlLower) ==
    IF \/ Includes(linkTextLower, "contact")
       \/ Includes(linkTextLower, "apply")
       \/ Includes(linkTextLower, "register")
    THEN << "critical", 90 >>
    ELSE IF \/ Includes(linkTextLower, "donate")
            \/ Includes(linkTextLower, "donation")
            \/ Includes(urlLower, "/donate")
    THEN << "critical", 95 >>
    ELSE IF \/ Includes(linkTextLower, "program")
            \/ Includes(linkTextLower, "service")
            \/ Includes(linkTextLower, "about")
    THEN << "high", 70 >>
    ELSE IF \/ Includes(linkTextLower, "archive")
            \/ Includes(urlLower, "/archive/")
            \/ Includes(urlLower, "/old/")
    THEN << "low", 25 >>
    ELSE << "medium", 50 >>

\* the if / else-if chain of getFallbackAnalysis: << importance, priorityScore >>
FallbackTier(linkTextLower, urlLower) ==
    IF \/ Includes(linkTextLower, "donate")
       \/ Includes(linkTextLower, "donation")
       \/ Includes(urlLower, "/donate")
    THEN << "critical", 95 >>
    ELSE IF \/ Includes(linkTextLower, "contact")
            \/ Includes(linkTextLower, "apply")
            \/ Includes(linkTextLower, "register")
    THEN << "critical", 90 >>
    ELSE IF \/ Includes(linkTextLower, "program")
            \/ Includes(linkTextLower, "service")
            \/ Includes(linkTextLower, "about")
    THEN << "high", 70 >>
    ELSE IF \/ Includes(linkTextLower, "archive")
            \/ Includes(urlLower, "/archive/")
            \/ Includes(urlLower, "/old/")
    THEN << "low", 25 >>
    ELSE << "medium", 50 >>

\* input.linkText || <dflt>: linkText is a string or undefined
LinkTextOr(input, dflt) ==
    IF Truthy(input.linkText) THEN input.linkText.s ELSE dflt

\* getFallbackAnalysis(input)
getFallbackAnalysis(input) ==
    LET tier == FallbackTier(ToLowerCase(LinkTextOr(input, "")),
                             ToLowerCase(input.brokenUrl))
    IN  [ intendedDestination |->
              Str("Page or resource related to: " \o LinkTextOr(input, "unknown content")),
          linkPurpose    |-> Str("Unable to analyze - Gemini API unavailable"),
          importance     |-> tier[1],
          businessImpact |->
              IF tier[1] = "critical"
              THEN Str("May prevent users from taking important actions")
              ELSE Str("May reduce user experience quality"),
          suggestedFixes |-> << Str(StripLastSegment(input.foundOnUrl)),
                                Str(StripTrailingSlash(input.brokenUrl)) >>,
          reasoning      |->
              Str("Fallback analysis due to API error. Based on link text and URL patterns."),
          priorityScore  |-> tier[2] ]

\* JSON.parse over the response universe: JsonUniverse maps every valid JSON
\* text that can reach JSON.parse in this model to its value; every other
\* text of the universe is not JSON (JSON.parse throws SyntaxError)
JFull ==
    "{\"intendedDestination\":\"Gift form\",\"linkPurpose\":\"Give\"," \o
    "\"importance\":\"critical\",\"businessImpact\":\"Lost gifts\"," \o
    "\"suggestedFixes\":[\"https://a.org/give\",\"https://a.org/\",\"/help\"]," \o
    "\"reasoning\":\"Donate link\",\"priorityScore\":97}"

JEmpty == "{}"

JNull == "null"

JNumber == "42"

JTypes ==
    "{\"importance\":\"CRITICAL\",\"priorityScore\":\"150\"," \o
    "\"suggestedFixes\":\"none\",\"reasoning\":\"\",\"linkPurpose\":7}"

JMany ==
    "{\"importance\":\"low\",\"priorityScore\":72.5," \o
    "\"suggestedFixes\":[\"u1\",\"u2\",\"u3\",\"u4\"]}"

JBadFixes ==
    "{\"importance\":\"high\",\"priorityScore\":-5,\"suggestedFixes\":[404,null]}"

JPartial == "{\"importance\":\"high\",\"suggestedFixes\":[\"u1\"],\"priorityScore\":40}"

\* a reasoning that quotes a code fence, and the same text with the fence
\* markers taken out of it
JInnerFence == "{\"reasoning\":\"run " \o FENCE \o "x" \o FENCE \o "\"}"

JInnerFenceStripped == "{\"reasoning\":\"run x\"}"

JGarbage == "I cannot analyze this link."

JTruncated == "{\"importance\":"

Fenced(tag, body) == FENCE \o tag \o NL \o body \o NL \o FENCE

JsonUniverse ==
    (JFull :> Obj(
        ("intendedDestination" :> Str("Gift form")) @@
        ("linkPurpose" :> Str("Give")) @@
        ("importance" :> Str("critical")) @@
        ("businessImpact" :> Str("Lost gifts")) @@
        ("suggestedFixes" :> Arr(<< Str("https://a.org/give"), Str("https://a.org/"),
                                     Str("/help") >>)) @@
        ("reasoning" :> Str("Donate link")) @@
        ("priorityScore" :> Num(970)))) @@
    (JEmpty :> Obj(<< >>)) @@
    (JNull :> JsNull) @@
    (JNumber :> Num(420)) @@
    (JTypes :> Obj(
        ("importance" :> Str("CRITICAL")) @@
        ("priorityScore" :> Str("150")) @@
        ("suggestedFixes" :> Str("none")) @@
        ("reasoning" :> Str("")) @@
        ("linkPurpose" :> Num(70)))) @@
    (JMany :> Obj(
        ("importance" :> Str("low")) @@
        ("priorityScore" :> Num(725)) @@
        ("suggestedFixes" :> Arr(<< Str("u1"), Str("u2"), Str("u3"), Str("u4") >>)))) @@
    (JBadFixes :> Obj(
        ("importance" :> Str("high")) @@
        ("priorityScore" :> Num(-50)) @@
        ("suggestedFixes" :> Arr(<< Num(4040), JsNull >>)))) @@
    (JPartial :> Obj(
        ("importance" :> Str("high")) @@
        ("suggestedFixes" :> Arr(<< Str("u1") >>)) @@
        ("priorityScore" :> Num(400)))) @@
    (JInnerFence :> Obj("reasoning" :> Str("run " \o FENCE \o "x" \o FENCE))) @@
    (JInnerFenceStripped :> Obj("reasoning" :> Str("run x")))

\* JSON.parse(text): white space around the value is allowed
JSONParse(text) ==
    IF Trim(text) \in DOMAIN JsonUniverse
    THEN [ok |-> TRUE, v |-> JsonUniverse[Trim(text)]]
    ELSE [ok |-> FALSE, v |-> Undefined]

\* the texts the AI provider may answer with
ResponseTexts ==
    { JFull, JEmpty, JNull, JNumber, JTypes, JMany, JBadFixes, JGarbage, JTruncated,
      Fenced("json", JFull), Fenced("", JMany), Fenced("json", JGarbage),
      " " \o JEmpty \o NL, JPartial }

\* what one call of model.generateContent (and response.text()) does
ProviderOutcomes ==
    { [kind |-> "throw", text |-> ""] } \cup
    { [kind |-> "text", text |-> t] : t \in ResponseTexts }

NoAnalysis == [threw |-> TRUE, value |-> Undefined, viaFallback |-> FALSE]

\* parseGeminiResponse(text): the try block throws when JSON.parse throws and
\* when a property of a parsed null is read; the catch rethrows
parseGeminiResponse(text) ==
    LET parsed == JSONParse(StripFences(text))
    IN  IF ~parsed.ok \/ Nullish(parsed.v)
        THEN NoAnalysis
        ELSE [threw |-> FALSE, value |-> AnalysisOfParsed(parsed.v),
              viaFallback |-> FALSE]

\* a catch block of analyzeContext that rethrows instead of falling back
AnalyzeCatchRethrows(input) ==
    [threw |-> TRUE, value |-> Undefined, viaFallback |-> FALSE]

\* the catch block of analyzeContext
AnalyzeCatch(input) ==
    [threw |-> FALSE, value |-> getFallbackAnalysis(input), viaFallback |-> TRUE]

\* analyzeContext(input), given what the provider does on this call:
\* [threw, value, viaFallback]; viaFallback observes that the catch block ran
analyzeContext(input, resp) ==
    IF resp.kind = "throw"
    THEN AnalyzeCatch(input)
    ELSE LET analysis == parseGeminiResponse(resp.text)
         IN  IF analysis.threw
             THEN AnalyzeCatch(input)
             ELSE [threw |-> FALSE, value |-> validateAnalysis(analysis.value),
                   viaFallback |-> FALSE]

-----------------------------------------------------------------------------
(* LinXupChecker: pure helpers *)

\* position of the first character of s that is in the set cs, Len(s)+1 if none
FirstOf(s, cs) ==
    IF \E k \in 1..Len(s) : CharAt(s, k) \in cs
    THEN CHOOSE k \in 1..Len(s) :
            /\ CharAt(s, k) \in cs
            /\ \A m \in 1..(k - 1) : CharAt(s, m) \notin cs
    ELSE Len(s) + 1

\* new URL(url).pathname for the URLs of the link universe: an http(s) URL
\* with a non-empty host parses, its pathname runs from the first "/" after
\* the host to the query or fragment ("/" when empty); a string with no
\* scheme does not parse (new URL throws)
UrlAfterScheme(url) ==
    IF StartsWith(url, "https://") THEN DropFirst(url, 8)
    ELSE IF StartsWith(url, "http://") THEN DropFirst(url, 7)
    ELSE ""

UrlParses(url) ==
    /\ UrlAfterScheme(url) # ""
    /\ FirstOf(UrlAfterScheme(url), {"/", "?", "#"}) > 1

UrlPathname(url) ==
    LET rest == UrlAfterScheme(url)
        tail == DropFirst(rest, FirstOf(rest, {"/", "?", "#"}) - 1)
        path == SubSeq(tail, 1, FirstOf(tail, {"?", "#"}) - 1)
    IN  IF path = "" THEN "/" ELSE path

RECURSIVE StripTrailingSlashes(_)
StripTrailingSlashes(s) ==
    IF EndsWith(s, "/") THEN StripTrailingSlashes(SubSeq(s, 1, Len(s) - 1)) ELSE s

\* pathname.split('/').filter((s) => s), last element; "" when there is none
LastSegment(pathname) ==
    LET p == StripTrailingSlashes(pathname)
    IN  DropFirst(p, LastSlash(p))

\* s.replace(/[-_]/g, ' ')
RECURSIVE DashesToSpaces(_)
DashesToSpaces(s) ==
    IF s = "" THEN ""
    ELSE (IF CharAt(s, 1) \in {"-", "_"} THEN " " ELSE CharAt(s, 1))
         \o DashesToSpaces(DropFirst(s, 1))

\* s.replace(/\.(html|htm|php)$/, '')
StripExtension(s) ==
    IF EndsWith(s, ".html") THEN SubSeq(s, 1, Len(s) - 5)
    ELSE IF EndsWith(s, ".htm") THEN SubSeq(s, 1, Len(s) - 4)
    ELSE IF EndsWith(s, ".php") THEN SubSeq(s, 1, Len(s) - 4)
    ELSE s

\* s.split(' ').map(word => word.charAt(0).toUpperCase() + word.slice(1)).join(' '):
\* the first character, and every character that follows a space, upper-cased
RECURSIVE CapitalizeFrom(_, _)
CapitalizeFrom(s, atWordStart) ==
    IF s = "" THEN ""
    ELSE (IF atWordStart THEN UpperChar(CharAt(s, 1)) ELSE CharAt(s, 1))
         \o CapitalizeFrom(DropFirst(s, 1), CharAt(s, 1) = " ")

\* a capitalisation of the first character of the string alone
CapitalizeFirstOnly(s) ==
    IF s = "" THEN "" ELSE UpperChar(CharAt(s, 1)) \o DropFirst(s, 1)

CapitalizeWords(s) == CapitalizeFrom(s, TRUE)

\* extractLinkText(url)
extractLinkText(url) ==
    IF ~UrlParses(url) THEN "Link"
    ELSE LET seg == LastSegment(UrlPathname(url))
             lastSegment == IF seg = "" THEN "Home" ELSE seg
         IN  CapitalizeWords(StripExtension(DashesToSpaces(lastSegment)))

\* extractContext(link, options)
extractContext(link) ==
    [ linkText        |-> Str(extractLinkText(link.url)),
      htmlContext     |-> Str("<a href=\"" \o link.url \o "\">Link</a>"),
      surroundingText |-> Undefined ]

\* a health score that truncates where the code rounds
calculateHealthScoreTruncates(totalLinks, brokenLinks) ==
    IF totalLinks = 0 THEN 100
    ELSE LET score == (100 * (totalLinks - brokenLinks)) \div totalLinks
         IN  IF score < 0 THEN 0 ELSE IF score > 100 THEN 100 ELSE score

\* a score that rounds the broken ratio itself
calculateHealthScoreOfBroken(totalLinks, brokenLinks) ==
    IF totalLinks = 0 THEN 100
    ELSE LET score == (200 * brokenLinks + totalLinks) \div (2 * totalLinks)
         IN  IF score < 0 THEN 0 ELSE IF score > 100 THEN 100 ELSE score

\* calculateHealthScore(totalLinks, brokenLinks):
\* Math.round((1 - broken/total) * 100) is the nearest integer to
\* 100 * (total - broken) / total, halves up: floor(x + 1/2)
calculateHealthScore(totalLinks, brokenLinks) ==
    IF totalLinks = 0 THEN 100
    ELSE LET score == (200 * (totalLinks - brokenLinks) + totalLinks)
                          \div (2 * totalLinks)
         IN  IF score < 0 THEN 0 ELSE IF score > 100 THEN 100 ELSE score

\* the integer n as a JS number
Whole(n) == Num(10 * n)

\* an insertion that puts an element in front of the elements of equal key
RECURSIVE InsertByKeyStrict(_, _)
InsertByKeyStrict(sorted, x) ==
    IF sorted = << >> THEN << x >>
    ELSE IF Head(sorted).key > x.key
         THEN << Head(sorted) >> \o InsertByKeyStrict(Tail(sorted), x)
         ELSE << x >> \o sorted

\* a stable sort of records by their key field, highest first: an element
\* goes behind every element whose key is not smaller
RECURSIVE InsertByKey(_, _)
InsertByKey(sorted, x) ==
    IF sorted = << >> THEN << x >>
    ELSE IF Head(sorted).key >= x.key
         THEN << Head(sorted) >> \o InsertByKey(Tail(sorted), x)
         ELSE << x >> \o sorted

RECURSIVE SortByKeyDesc(_)
SortByKeyDesc(s) ==
    IF s = << >> THEN << >>
    ELSE InsertByKey(SortByKeyDesc(SubSeq(s, 1, Len(s) - 1)), s[Len(s)])

\* generateReport(result), lines 366-403: the section the report has after
\* the summary (the test is on result.brokenLinksWithAI.length), the count of
\* the "All N links are working perfectly" line, and the numbered entries in
\* the order they are written, from a sorted copy of result.brokenLinksWithAI
generateReport(result) ==
    LET links == result.brokenLinksWithAI
        sortedLinks ==
            SortByKeyDesc([k \in 1..Len(links) |->
                             [key |-> links[k].aiAnalysis.priorityScore,
                              finding |-> links[k]]])
    IN  [ section |-> IF Len(links) > 0 THEN "BROKEN LINKS WITH AI ANALYSIS"
                      ELSE "NO BROKEN LINKS FOUND",
          allWorking |-> IF Len(links) > 0 THEN JsNull ELSE Whole(result.totalLinks),
          entries |->
            [k \in 1..Len(sortedLinks) |->
               [ number        |-> k,
                 url           |-> sortedLinks[k].finding.url,
                 priorityScore |-> sortedLinks[k].finding.aiAnalysis.priorityScore ]] ]

\* checkWaybackMachine(url), given what fetch and response.json() do:
\*   kind "throw": fetch or response.json() throws (caught, null)
\*   kind "http" : a response with response.ok = ok and JSON body data
WaybackUrl(url) == "http://web.archive.org/web/2024/" \o url

Snapshot(closest) == Obj("archived_snapshots" :> Obj("closest" :> closest))

WaybackResponses(url) ==
    { [kind |-> "throw", ok |-> FALSE, data |-> Undefined],
      [kind |-> "http", ok |-> FALSE, data |-> Obj(<< >>)],
      [kind |-> "http", ok |-> TRUE, data |-> Obj(<< >>)],
      [kind |-> "http", ok |-> TRUE, data |-> Obj("archived_snapshots" :> Obj(<< >>))],
      [kind |-> "http", ok |-> TRUE,
       data |-> Snapshot(Obj(("available" :> Bool(FALSE)) @@
                             ("url" :> Str(WaybackUrl(url)))))],
      [kind |-> "http", ok |-> TRUE,
       data |-> Snapshot(Obj("available" :> Bool(TRUE)))],
      [kind |-> "http", ok |-> TRUE,
       data |-> Snapshot(Obj(("available" :> Bool(TRUE)) @@
                             ("url" :> Str(WaybackUrl(url)))))] }

\* a?.b
OptGet(v, key) == IF Nullish(v) THEN Undefined ELSE Get(v, key)

\* a lookup that returns the snapshot's url without testing available
checkWaybackMachineIgnoresAvailable(resp) ==
    IF resp.kind = "throw" THEN JsNull
    ELSE IF ~resp.ok THEN JsNull
    ELSE LET closest == OptGet(Get(resp.data, "archived_snapshots"), "closest")
         IN  OrElse(OptGet(closest, "url"), JsNull)

checkWaybackMachine(resp) ==
    IF resp.kind = "throw" THEN JsNull
    ELSE IF ~resp.ok THEN JsNull
    ELSE LET closest == OptGet(Get(resp.data, "archived_snapshots"), "closest")
         IN  IF Truthy(OptGet(closest, "available"))
             THEN OrElse(Get(closest, "url"), JsNull)
             ELSE JsNull

-----------------------------------------------------------------------------
(* THE CRAWL COLLABORATOR: the links this.check(options) may return *)

OptionsPath == "./test-site.html"

LinkPool ==
    { [url |-> "https://a.org/donate", parent |-> Str("https://a.org/index.html"),
       status |-> Whole(404), state |-> "BROKEN"],
      [url |-> "https://a.org/old/news/", parent |-> Undefined,
       status |-> Whole(0), state |-> "BROKEN"],
      [url |-> "https://a.org/about-us.html", parent |-> Str("https://a.org/index.html"),
       status |-> Whole(200), state |-> "OK"] }

CrawlResults == UNION { [1..n -> LinkPool] : n \in 0..MaxLinks }

\* a partition that keeps every link, whatever its state
FilterBrokenKeepsAll(links) == links

\* crawlResult.links.filter((link) => link.state === LinkState.BROKEN)
RECURSIVE FilterBroken(_)
FilterBroken(links) ==
    IF links = << >> THEN << >>
    ELSE (IF Head(links).state = "BROKEN" THEN << Head(links) >> ELSE << >>)
         \o FilterBroken(Tail(links))

\* the aiInput object literal
AiInputOf(link) ==
    LET context == extractContext(link)
    IN  [ brokenUrl       |-> link.url,
          statusCode      |-> OrElse(link.status, JsNull),
          foundOnUrl      |-> OrElse(link.parent, Str(OptionsPath)).s,
          linkText        |-> context.linkText,
          htmlContext     |-> context.htmlContext,
          surroundingText |-> context.surroundingText ]

\* the provider behaviours exercised inside a scan
ScanProviderOutcomes ==
    { [kind |-> "throw", text |-> ""],
      [kind |-> "text", text |-> JFull],
      [kind |-> "text", text |-> JBadFixes] }

\* the errors of the collaborators
ErrCreateScan == [message |-> "createScanResult failed"]

ErrCrawl == [message |-> "crawl failed"]

ErrComplete == [message |-> "completeScanResult failed"]

ErrFailWrite == [message |-> "failure update failed"]

NoError == [message |-> ""]

ErrStep == [message |-> "broken link step failed"]

-----------------------------------------------------------------------------
(* THE PERSISTENCE GATEWAY (Database): the rows one run writes *)

\* no scan_results row yet
NoScan ==
    [ status |-> "none", total_links |-> 0, broken_links |-> 0,
      health_score |-> JsNull, error_message |-> JsNull ]

\* createScanResult: INSERT ... status 'running', the other columns at their
\* schema defaults
createScanResult ==
    [ status |-> "running", total_links |-> 0, broken_links |-> 0,
      health_score |-> JsNull, error_message |-> JsNull ]

\* completeScanResult(scanId, totalLinks, brokenLinks, healthScore)
completeScanResult(row, totalLinks, brokenLinks, healthScore) ==
    [ row EXCEPT !.status = "completed",
                 !.total_links = totalLinks,
                 !.broken_links = brokenLinks,
                 !.health_score = Whole(healthScore) ]

\* UPDATE scan_results SET status = 'failed', error_message = $2 WHERE id = $1
markScanFailed(row, message) ==
    [ row EXCEPT !.status = "failed", !.error_message = Str(message) ]

\* createBrokenLink(scanId, url, statusCode, foundOn, linkText, htmlContext):
\* the inserted row
createBrokenLink(url, statusCode, foundOn, linkText, htmlContext) ==
    [ url |-> url, status_code |-> statusCode, found_on |-> foundOn,
      link_text |-> OrElse(linkText, JsNull),
      html_context |-> OrElse(htmlContext, JsNull),
      ai_analysis |-> JsNull, suggested_fixes |-> JsNull,
      priority_score |-> JsNull, is_critical |-> FALSE ]

\* JSON.stringify(value) stored in a JSONB column, as the value the column
\* reads back: a property whose value is undefined is left out, an undefined
\* array element becomes null, every other value is kept
RECURSIVE JSONStringify(_)
JSONStringify(v) ==
    CASE v.t = "object" ->
            Obj([k \in {j \in DOMAIN v.o : v.o[j].t # "undefined"} |->
                    JSONStringify(v.o[k])])
      [] v.t = "array" ->
            Arr([k \in 1..Len(v.a) |->
                    IF v.a[k].t = "undefined" THEN JsNull ELSE JSONStringify(v.a[k])])
      [] OTHER -> v

\* an update that leaves is_critical at the column default
updateBrokenLinkKeepsFlag(row, analysisForDb, fixesForDb, priorityScore, isCritical) ==
    [ row EXCEPT !.ai_analysis = JSONStringify(Obj(analysisForDb)),
                 !.suggested_fixes =
                     Arr([k \in 1..Len(fixesForDb) |->
                            [fixesForDb[k] EXCEPT !.url = JSONStringify(@)]]),
                 !.priority_score = Whole(priorityScore) ]

\* updateBrokenLinkWithAI(linkId, aiAnalysis, suggestedFixes, priorityScore, isCritical)
updateBrokenLinkWithAI(row, analysisForDb, fixesForDb, priorityScore, isCritical) ==
    [ row EXCEPT !.ai_analysis = JSONStringify(Obj(analysisForDb)),
                 !.suggested_fixes =
                     Arr([k \in 1..Len(fixesForDb) |->
                            [fixesForDb[k] EXCEPT !.url = JSONStringify(@)]]),
                 !.priority_score = Whole(priorityScore),
                 !.is_critical = isCritical ]

\* getBrokenLinksByScanId(scanId): the rows of the scan with their ids,
\* ORDER BY priority_score DESC NULLS LAST (rows of equal score in id order)
getBrokenLinksByScanId(rows) ==
    LET keyed == [k \in 1..Len(rows) |->
                    [ key |-> IF rows[k].priority_score = JsNull THEN -1
                              ELSE rows[k].priority_score.n10,
                      id  |-> k,
                      row |-> rows[k] ]]
    IN  SortByKeyDesc(keyed)

-----------------------------------------------------------------------------
(* LinXupChecker.checkWithIntelligence, one action per awaited call *)

brokenLinks == FilterBroken(crawlLinks)

\* brokenLinks[i] of the running iteration
link == brokenLinks[i]

\* an aiAnalysisForDb literal with businessImpact and reasoning exchanged
AiAnalysisForDbSwapped(analysis) ==
    ("intendedDestination" :> analysis.intendedDestination) @@
    ("linkPurpose" :> analysis.linkPurpose) @@
    ("importance" :> Str(analysis.importance)) @@
    ("businessImpact" :> analysis.reasoning) @@
    ("reasoning" :> analysis.businessImpact)

\* the aiAnalysisForDb object literal
AiAnalysisForDb(analysis) ==
    ("intendedDestination" :> analysis.intendedDestination) @@
    ("linkPurpose" :> analysis.linkPurpose) @@
    ("importance" :> Str(analysis.importance)) @@
    ("businessImpact" :> analysis.businessImpact) @@
    ("reasoning" :> analysis.reasoning)

\* url.includes('web.archive.org') throws TypeError for a value that has no
\* includes method: anything but a string or an array
IncludesThrows(url) == url.t \notin {"string", "array"}

UrlIncludesArchive(url) ==
    IF url.t = "string" THEN Includes(url.s, "web.archive.org")
    ELSE \E k \in 1..Len(url.a) : url.a[k] = Str("web.archive.org")

\* the suggestedFixesForDb mapping: [threw, value]
SuggestedFixesForDb(fixes) ==
    IF \E k \in 1..Len(fixes) : IncludesThrows(fixes[k])
    THEN [threw |-> TRUE, value |-> << >>]
    ELSE [threw |-> FALSE,
          value |-> [k \in 1..Len(fixes) |->
                        [ url |-> fixes[k],
                          source |-> IF UrlIncludesArchive(fixes[k])
                                     THEN "wayback" ELSE "gpt4",
                          confidence10 |-> 8 ]]]

\* push instead of unshift: the archived URL goes last
UnshiftAppends(analysis, url) ==
    [analysis EXCEPT !.suggestedFixes = @ \o << url >>]

\* aiAnalysis.suggestedFixes.unshift(waybackUrl)
Unshift(analysis, url) ==
    [analysis EXCEPT !.suggestedFixes = << url >> \o @]

\* the object pushed on brokenLinksWithAI
FindingOf(l, analysis, dbId) ==
    LET context == extractContext(l)
    IN  [ url         |-> l.url,
          statusCode  |-> OrElse(l.status, JsNull),
          foundOn     |-> OrElse(l.parent, Str(OptionsPath)).s,
          linkText    |-> context.linkText,
          htmlContext |-> context.htmlContext,
          aiAnalysis  |-> analysis,
          dbId        |-> dbId ]

Pending == [kind |-> "pending", error |-> NoError, result |-> Undefined]

Rejected(e) == [kind |-> "rejected", error |-> e, result |-> Undefined]

Returned(r) == [kind |-> "returned", error |-> NoError, result |-> r]

HistInit ==
    [ faults |-> 0, crawlCalls |-> 0, aiCalls |-> 0, waybackCalls |-> 0,
      createLinkCalls |-> 0, updateLinkCalls |-> 0, completeCalls |-> 0,
      failWrites |-> 0, scanWrites |-> 0, thrown |-> {},
      aiThrewAt |-> {}, persistThrewAt |-> {}, mapThrewAt |-> {},
      delayAfter |-> {}, lookup |-> "none" ]

CanFault == hist.faults < MaxFaults

\* the collaborator call named what throws
Fault(h, what) == [h EXCEPT !.faults = @ + 1, !.thrown = @ \cup {what}]

\* a createScanResult call placed inside the try: its throw reaches the
\* outer catch
CreateScanInTry ==
    /\ pc = "createScan"
    /\ \/ /\ CanFault
          /\ hist' = Fault(hist, "createScanResult")
          /\ error' = ErrCreateScan
          /\ pc' = "failWrite"
          /\ UNCHANGED << scan, outcome >>
       \/ /\ scan' = createScanResult
          /\ pc' = "crawl"
          /\ UNCHANGED << hist, outcome, error >>
    /\ UNCHANGED << includeWayback, dbLinks, crawlLinks, i, aiAnalysis, recId,
                    brokenLinksWithAI >>

\* lines 101-107: await this.db.createScanResult(...), outside the try
CreateScan ==
    /\ pc = "createScan"
    /\ \/ /\ CanFault
          /\ hist' = Fault(hist, "createScanResult")
          /\ outcome' = Rejected(ErrCreateScan)
          /\ pc' = "done"
          /\ UNCHANGED scan
       \/ /\ scan' = createScanResult
          /\ pc' = "crawl"
          /\ UNCHANGED << hist, outcome >>
    /\ UNCHANGED << includeWayback, dbLinks, crawlLinks, i, aiAnalysis, recId,
                    brokenLinksWithAI, error >>

\* a loop that is left for the completion whatever links remain
AfterStepLeavesLoop(k, n) == "complete"

\* where the loop goes once the step of brokenLinks[i] is over (also the
\* skipped if (brokenLinks.length > 0) for an empty list)
AfterStep(k, n) == IF k < n THEN "analyze" ELSE "complete"

\* lines 110-124: await this.check(options), the filter, the loop entry
Crawl ==
    /\ pc = "crawl"
    /\ \/ /\ CanFault
          /\ hist' = [Fault(hist, "check") EXCEPT !.crawlCalls = @ + 1]
          /\ error' = ErrCrawl
          /\ pc' = "failWrite"
          /\ UNCHANGED << crawlLinks, i >>
       \/ \E links \in CrawlResults :
            /\ crawlLinks' = links
            /\ hist' = [hist EXCEPT !.crawlCalls = @ + 1]
            /\ i' = 1
            /\ pc' = AfterStep(0, Len(FilterBroken(links)))
            /\ UNCHANGED error
    /\ UNCHANGED << includeWayback, scan, dbLinks, aiAnalysis, recId,
                    brokenLinksWithAI, outcome >>

\* a per-link catch that rethrows: the step's error reaches the outer catch
StepCatchAborts(h) ==
    /\ hist' = h
    /\ error' = ErrStep
    /\ pc' = "failWrite"
    /\ aiAnalysis' = Undefined
    /\ recId' = 0
    /\ UNCHANGED << includeWayback, scan, crawlLinks, brokenLinksWithAI,
                    i, outcome >>

\* lines 212-215: the catch of the per-link try: log and go on with the next
\* link (the wait of line 210 is inside the try and is not reached)
StepCatch(h) ==
    /\ hist' = [h EXCEPT !.lookup = "none"]
    /\ i' = i + 1
    /\ pc' = AfterStep(i, Len(brokenLinks))
    /\ aiAnalysis' = Undefined
    /\ recId' = 0
    /\ UNCHANGED << includeWayback, scan, crawlLinks, brokenLinksWithAI,
                    error, outcome >>

\* lines 133-151: extractContext, the aiInput literal,
\* await this.aiAnalyzer.analyzeContext(aiInput)
Analyze ==
    /\ pc = "analyze"
    /\ \E resp \in ScanProviderOutcomes :
         /\ resp.kind = "throw" => CanFault
         /\ LET r == analyzeContext(AiInputOf(link), resp)
                h == [ (IF resp.kind = "throw" THEN Fault(hist, "generateContent") ELSE hist)
                         EXCEPT !.aiCalls = @ + 1,
                                !.aiThrewAt = IF resp.kind = "throw"
                                              THEN @ \cup {i} ELSE @ ]
            IN  IF r.threw
                THEN StepCatch(h)
                ELSE /\ aiAnalysis' = r.value
                     /\ hist' = h
                     /\ pc' = IF includeWayback THEN "wayback" ELSE "createLink"
                     /\ UNCHANGED << includeWayback, scan, crawlLinks, i, recId,
                                     brokenLinksWithAI, error, outcome >>
    /\ UNCHANGED dbLinks

\* lines 153-160: await this.checkWaybackMachine(link.url), unshift
Wayback ==
    /\ pc = "wayback"
    /\ \E resp \in WaybackResponses(link.url) :
         LET waybackUrl == checkWaybackMachine(resp)
         IN  IF Truthy(waybackUrl)
             THEN /\ aiAnalysis' = Unshift(aiAnalysis, waybackUrl)
                  /\ hist' = [hist EXCEPT !.waybackCalls = @ + 1,
                                          !.lookup = "found"]
             ELSE /\ aiAnalysis' = aiAnalysis
                  /\ hist' = [hist EXCEPT !.waybackCalls = @ + 1,
                                          !.lookup = "noResult"]
    /\ pc' = "createLink"
    /\ UNCHANGED << includeWayback, scan, dbLinks, crawlLinks, i, recId,
                    brokenLinksWithAI, error, outcome >>

\* lines 162-170: await this.db.createBrokenLink(...)
CreateLink ==
    /\ pc = "createLink"
    /\ LET h == [hist EXCEPT !.createLinkCalls = @ + 1]
       IN  \/ /\ CanFault
              /\ StepCatch([Fault(h, "createBrokenLink")
                               EXCEPT !.persistThrewAt = @ \cup {i}])
              /\ UNCHANGED dbLinks
           \/ /\ dbLinks' = Append(dbLinks,
                     createBrokenLink(link.url,
                                      OrElse(link.status, JsNull),
                                      OrElse(link.parent, Str(OptionsPath)).s,
                                      extractContext(link).linkText,
                                      extractContext(link).htmlContext))
              /\ recId' = Len(dbLinks) + 1
              /\ hist' = h
              /\ pc' = "updateLink"
              /\ UNCHANGED << includeWayback, scan, crawlLinks, i, aiAnalysis,
                              brokenLinksWithAI, error, outcome >>

\* a step that pushes the finding before it awaits the update: when the
\* update throws, the finding is already in the list
UpdateLinkPushesFirst ==
    /\ pc = "updateLink"
    /\ LET fixes == SuggestedFixesForDb(aiAnalysis.suggestedFixes)
           h == [hist EXCEPT !.updateLinkCalls = @ + 1, !.lookup = "none"]
       IN  IF fixes.threw
           THEN /\ StepCatch([hist EXCEPT !.mapThrewAt = @ \cup {i}])
                /\ UNCHANGED dbLinks
           ELSE /\ brokenLinksWithAI' =
                     Append(brokenLinksWithAI, FindingOf(link, aiAnalysis, recId))
                /\ aiAnalysis' = Undefined
                /\ recId' = 0
                /\ UNCHANGED << includeWayback, scan, crawlLinks, error, outcome >>
                /\ \/ /\ CanFault
                      /\ hist' = [Fault(h, "updateBrokenLinkWithAI")
                                     EXCEPT !.persistThrewAt = @ \cup {i}]
                      /\ i' = i + 1
                      /\ pc' = AfterStep(i, Len(brokenLinks))
                      /\ UNCHANGED dbLinks
                   \/ /\ dbLinks' =
                           [dbLinks EXCEPT ![recId] =
                               updateBrokenLinkWithAI(@, AiAnalysisForDb(aiAnalysis),
                                   fixes.value, aiAnalysis.priorityScore,
                                   aiAnalysis.importance = "critical")]
                      /\ hist' = h
                      /\ IF i < Len(brokenLinks)
                         THEN pc' = "delay" /\ i' = i
                         ELSE pc' = "complete" /\ i' = i + 1

\* lines 172-211: the two literals for the database,
\* await this.db.updateBrokenLinkWithAI(...), the push, the rate-limit test
UpdateLink ==
    /\ pc = "updateLink"
    /\ LET fixes == SuggestedFixesForDb(aiAnalysis.suggestedFixes)
           h == [hist EXCEPT !.updateLinkCalls = @ + 1]
       IN  IF fixes.threw
           THEN /\ StepCatch([hist EXCEPT !.mapThrewAt = @ \cup {i}])
                /\ UNCHANGED dbLinks
           ELSE \/ /\ CanFault
                   /\ StepCatch([Fault(h, "updateBrokenLinkWithAI")
                                    EXCEPT !.persistThrewAt = @ \cup {i}])
                   /\ UNCHANGED dbLinks
                \/ /\ dbLinks' =
                        [dbLinks EXCEPT ![recId] =
                            updateBrokenLinkWithAI(@, AiAnalysisForDb(aiAnalysis),
                                fixes.value, aiAnalysis.priorityScore,
                                aiAnalysis.importance = "critical")]
                   /\ brokenLinksWithAI' =
                        Append(brokenLinksWithAI, FindingOf(link, aiAnalysis, recId))
                   /\ hist' = [h EXCEPT !.lookup = "none"]
                   /\ IF i < Len(brokenLinks)
                      THEN pc' = "delay" /\ i' = i
                      ELSE pc' = "complete" /\ i' = i + 1
                   /\ aiAnalysis' = Undefined
                   /\ recId' = 0
                   /\ UNCHANGED << includeWayback, scan, crawlLinks, error, outcome >>

\* a timer that is started and not awaited: the loop issues the next link's
\* AI call while the wait is still running
DelayNotAwaited ==
    /\ pc = "delay"
    /\ \E resp \in ScanProviderOutcomes :
         /\ resp.kind # "throw"
         /\ aiAnalysis' = analyzeContext(AiInputOf(brokenLinks[i + 1]), resp).value
    /\ hist' = [hist EXCEPT !.delayAfter = @ \cup {i}, !.aiCalls = @ + 1]
    /\ i' = i + 1
    /\ pc' = IF includeWayback THEN "wayback" ELSE "createLink"
    /\ UNCHANGED << includeWayback, scan, dbLinks, crawlLinks, recId,
                    brokenLinksWithAI, error, outcome >>

\* a wait that is made twice before the next link is taken up
DelayTwice ==
    /\ pc = "delay"
    /\ hist' = [hist EXCEPT !.delayAfter = @ \cup {i}]
    /\ IF i \in hist.delayAfter
       THEN i' = i + 1 /\ pc' = "analyze"
       ELSE i' = i /\ pc' = "delay"
    /\ UNCHANGED << includeWayback, scan, dbLinks, crawlLinks, aiAnalysis, recId,
                    brokenLinksWithAI, error, outcome >>

\* line 210: await new Promise((resolve) => setTimeout(resolve, 1000))
Delay ==
    /\ pc = "delay"
    /\ hist' = [hist EXCEPT !.delayAfter = @ \cup {i}]
    /\ i' = i + 1
    /\ pc' = "analyze"
    /\ UNCHANGED << includeWayback, scan, dbLinks, crawlLinks, aiAnalysis, recId,
                    brokenLinksWithAI, error, outcome >>

\* a result whose broken count is taken from the findings
ResultOfCountsFindings(links, findings) ==
    [ scanId           |-> 1,
      totalLinks       |-> Len(links),
      brokenLinksCount |-> Len(findings),
      healthScore      |-> calculateHealthScore(Len(links), Len(findings)),
      brokenLinksWithAI |-> findings ]

\* the object literal returned at lines 239-248
ResultOf(links, findings) ==
    [ scanId           |-> 1,
      totalLinks       |-> Len(links),
      brokenLinksCount |-> Len(FilterBroken(links)),
      healthScore      |-> calculateHealthScore(Len(links), Len(FilterBroken(links))),
      brokenLinksWithAI |-> findings ]

\* a completion whose successful write is followed by a throw inside the try:
\* control reaches the outer catch with the record already completed
CompleteThenThrows ==
    /\ pc = "complete"
    /\ LET h == [hist EXCEPT !.completeCalls = @ + 1]
       IN  \/ /\ CanFault
              /\ hist' = Fault(h, "completeScanResult")
              /\ error' = ErrComplete
              /\ pc' = "failWrite"
              /\ UNCHANGED << scan, outcome >>
           \/ /\ scan' = completeScanResult(scan, Len(crawlLinks), Len(brokenLinks),
                             calculateHealthScore(Len(crawlLinks), Len(brokenLinks)))
              /\ hist' = [h EXCEPT !.scanWrites = @ + 1]
              /\ error' = ErrStep
              /\ pc' = "failWrite"
              /\ UNCHANGED outcome
    /\ UNCHANGED << includeWayback, dbLinks, crawlLinks, i, aiAnalysis, recId,
                    brokenLinksWithAI >>

\* lines 219-248: calculateHealthScore, await this.db.completeScanResult(...),
\* return; a throw of completeScanResult lands in the outer catch
Complete ==
    /\ pc = "complete"
    /\ LET h == [hist EXCEPT !.completeCalls = @ + 1]
       IN  \/ /\ CanFault
              /\ hist' = Fault(h, "completeScanResult")
              /\ error' = ErrComplete
              /\ pc' = "failWrite"
              /\ UNCHANGED << scan, outcome >>
           \/ /\ scan' = completeScanResult(scan, Len(crawlLinks), Len(brokenLinks),
                             calculateHealthScore(Len(crawlLinks), Len(brokenLinks)))
              /\ hist' = [h EXCEPT !.scanWrites = @ + 1]
              /\ outcome' = Returned(ResultOf(crawlLinks, brokenLinksWithAI))
              /\ pc' = "done"
              /\ UNCHANGED error
    /\ UNCHANGED << includeWayback, dbLinks, crawlLinks, i, aiAnalysis, recId,
                    brokenLinksWithAI >>

\* lines 249-257: the outer catch: await this.db.query(UPDATE ... 'failed'),
\* then throw error; a throw of the query replaces the caught error
FailWrite ==
    /\ pc = "failWrite"
    /\ LET h == [hist EXCEPT !.failWrites = @ + 1]
       IN  \/ /\ CanFault
              /\ hist' = Fault(h, "query")
              /\ outcome' = Rejected(ErrFailWrite)
              /\ UNCHANGED scan
           \/ /\ scan' = markScanFailed(scan, error.message)
              /\ hist' = [h EXCEPT !.scanWrites = @ + 1]
              /\ outcome' = Rejected(error)
    /\ pc' = "done"
    /\ UNCHANGED << includeWayback, dbLinks, crawlLinks, i, aiAnalysis, recId,
                    brokenLinksWithAI, error >>

AnalyzerIdle ==
    /\ apc = "idle"
    /\ ainput = Undefined
    /\ aresp = Undefined
    /\ aparsed = Undefined
    /\ aresult = Undefined

BatchIdle ==
    /\ bpc = "idle"
    /\ binputs = << >>
    /\ bresults = << >>
    /\ blog = << >>

FunIdle ==
    /\ fpc = "idle"
    /\ farg = Undefined
    /\ fres = Undefined
    /\ fres2 = Undefined
    /\ fcalls = 0

Init ==
    /\ pc = "createScan"
    /\ includeWayback \in BOOLEAN
    /\ scan = NoScan
    /\ dbLinks = << >>
    /\ crawlLinks = << >>
    /\ i = 0
    /\ aiAnalysis = Undefined
    /\ recId = 0
    /\ brokenLinksWithAI = << >>
    /\ error = NoError
    /\ outcome = Pending
    /\ hist = HistInit
    /\ AnalyzerIdle
    /\ BatchIdle
    /\ FunIdle

Next ==
    \/ CreateScan /\ UNCHANGED << anVars, batchVars, funVars >>
    \/ Crawl /\ UNCHANGED << anVars, batchVars, funVars >>
    \/ Analyze /\ UNCHANGED << anVars, batchVars, funVars >>
    \/ Wayback /\ UNCHANGED << anVars, batchVars, funVars >>
    \/ CreateLink /\ UNCHANGED << anVars, batchVars, funVars >>
    \/ UpdateLink /\ UNCHANGED << anVars, batchVars, funVars >>
    \/ Delay /\ UNCHANGED << anVars, batchVars, funVars >>
    \/ Complete /\ UNCHANGED << anVars, batchVars, funVars >>
    \/ FailWrite /\ UNCHANGED << anVars, batchVars, funVars >>

Spec == Init /\ [][Next]_vars

-----------------------------------------------------------------------------
(* GeminiLinkAnalyzer.analyzeContext as a specification of its own: one call *)
(* for every input and every behaviour of the provider                       *)

AnalyzerInputs ==
    { AiInputOf(l) : l \in LinkPool } \cup
    { [ brokenUrl |-> "https://a.org/contact", statusCode |-> JsNull,
        foundOnUrl |-> "https://a.org/", linkText |-> Undefined,
        htmlContext |-> Undefined, surroundingText |-> Undefined ],
      [ brokenUrl |-> "https://a.org/p?id=3", statusCode |-> Whole(500),
        foundOnUrl |-> "https://a.org/a/b", linkText |-> Str("Our PROGRAMS"),
        htmlContext |-> Undefined, surroundingText |-> Undefined ],
      [ brokenUrl |-> "https://a.org/x", statusCode |-> Whole(410),
        foundOnUrl |-> "index.html", linkText |-> Str(""),
        htmlContext |-> Undefined, surroundingText |-> Undefined ] }

OrchestratorIdle ==
    /\ pc = "idle"
    /\ includeWayback = FALSE
    /\ scan = NoScan
    /\ dbLinks = << >>
    /\ crawlLinks = << >>
    /\ i = 0
    /\ aiAnalysis = Undefined
    /\ recId = 0
    /\ brokenLinksWithAI = << >>
    /\ error = NoError
    /\ outcome = Pending
    /\ hist = HistInit

InitAnalyzer ==
    /\ OrchestratorIdle
    /\ BatchIdle
    /\ FunIdle
    /\ apc = "call"
    /\ ainput \in AnalyzerInputs
    /\ aresp = Undefined
    /\ aparsed = Undefined
    /\ aresult = Undefined

\* lines 225-227: await this.model.generateContent(prompt), response.text()
AGenerate ==
    /\ apc = "call"
    /\ aresp' \in ProviderOutcomes
    /\ apc' = "responded"
    /\ UNCHANGED << ainput, aparsed, aresult >>

\* lines 229-238: parse, validate, return; or the catch and the fallback
AFinish ==
    /\ apc = "responded"
    /\ aparsed' = IF aresp.kind = "text"
                  THEN parseGeminiResponse(aresp.text)
                  ELSE NoAnalysis
    /\ aresult' = analyzeContext(ainput, aresp)
    /\ apc' = IF analyzeContext(ainput, aresp).threw THEN "rejected" ELSE "returned"
    /\ UNCHANGED << ainput, aresp >>

NextAnalyzer ==
    \/ AGenerate /\ UNCHANGED << orchVars, batchVars, funVars >>
    \/ AFinish /\ UNCHANGED << orchVars, batchVars, funVars >>

SpecAnalyzer == InitAnalyzer /\ [][NextAnalyzer]_vars

-----------------------------------------------------------------------------
(* The pure functions, each applied on its own to arguments drawn from a  *)
(* bounded set                                                             *)

HealthArgs ==
    { [fn |-> "calculateHealthScore", totalLinks |-> t, brokenLinks |-> b] :
        t \in 0..MaxTotal, b \in 0..MaxTotal }

FallbackLinkTexts ==
    { Undefined, Str(""), Str("Donate Now"), Str("DONATION drive"),
      Str("Contact Us"), Str("Apply today"), Str("Register"),
      Str("Our Programs"), Str("Services"), Str("About"),
      Str("archived post"), Str("News"),
      Str("Contact our donation desk"), Str("About the archive") }

FallbackUrls ==
    { "https://a.org/donate", "https://A.org/DONATE/", "https://a.org/contact",
      "https://a.org/about-us", "https://a.org/archive/2019",
      "https://a.org/old/news/", "https://a.org/archive", "https://a.org/x" }

FallbackFoundOn == { "https://a.org/a/b", "index.html" }

FallbackInputs ==
    { [ brokenUrl |-> u, statusCode |-> Whole(404), foundOnUrl |-> p,
        linkText |-> t, htmlContext |-> Undefined,
        surroundingText |-> Undefined ] :
        u \in FallbackUrls, p \in FallbackFoundOn, t \in FallbackLinkTexts }

FallbackArgs == { [fn |-> "getFallbackAnalysis", input |-> x] : x \in FallbackInputs }

FunOrchestratorIdle == OrchestratorIdle /\ AnalyzerIdle /\ BatchIdle

\* calculateHealthScore(totalLinks, brokenLinks)
ApplyHealthScore ==
    /\ fpc = "call" /\ farg.fn = "calculateHealthScore"
    /\ fres' = calculateHealthScore(farg.totalLinks, farg.brokenLinks)
    /\ fpc' = "applied"
    /\ UNCHANGED << farg, fres2, fcalls >>

\* calculateHealthScore(totalLinks, brokenLinks + 1): a second call for the
\* same total with one more broken link, while broken < total
ApplyHealthScoreNext ==
    /\ fpc = "applied" /\ farg.fn = "calculateHealthScore"
    /\ farg.brokenLinks < farg.totalLinks
    /\ fres2' = calculateHealthScore(farg.totalLinks, farg.brokenLinks + 1)
    /\ fpc' = "appliedTwice"
    /\ UNCHANGED << farg, fres, fcalls >>

\* getFallbackAnalysis(input), a first time
ApplyFallback ==
    /\ fpc = "call" /\ farg.fn = "getFallbackAnalysis"
    /\ fres' = getFallbackAnalysis(farg.input)
    /\ fpc' = "applied"
    /\ UNCHANGED << farg, fres2, fcalls >>

\* lines 224-227 between two fallbacks: the analyzer calls the provider for
\* some other link
ProviderCallBetween ==
    /\ fpc = "applied" /\ farg.fn = "getFallbackAnalysis"
    /\ fcalls = 0
    /\ fcalls' = fcalls + 1
    /\ UNCHANGED << fpc, farg, fres, fres2 >>

\* a second call that asks the provider and lets its answer weigh in
ApplyFallbackAgainViaProvider ==
    /\ fpc = "applied" /\ farg.fn = "getFallbackAnalysis"
    /\ fcalls' = fcalls + 1
    /\ fres2' = [getFallbackAnalysis(farg.input) EXCEPT
                    !.priorityScore = IF fcalls > 0 THEN 50 ELSE @]
    /\ fpc' = "appliedTwice"
    /\ UNCHANGED << farg, fres >>

\* getFallbackAnalysis(input), a second time with the same input
ApplyFallbackAgain ==
    /\ fpc = "applied" /\ farg.fn = "getFallbackAnalysis"
    /\ fres2' = getFallbackAnalysis(farg.input)
    /\ fpc' = "appliedTwice"
    /\ UNCHANGED << farg, fres, fcalls >>

\* the texts parseGeminiResponse is applied to, bare and inside a code fence
FenceTexts ==
    { JFull, JEmpty, JNull, JNumber, JTypes, JMany, JBadFixes, JPartial,
      JGarbage, JTruncated, JInnerFence, "", Fenced("json", JFull) }

\* the language tag after the opening fence marker ("": none)
FenceTags == { "", "json", "javascript" }

ParseArgs ==
    { [fn |-> "parseGeminiResponse", text |-> t, tag |-> g] :
        t \in FenceTexts, g \in FenceTags }

ScoreValues ==
    { Num(n) : n \in (-12..16) \cup (994..1006) \cup {-1000, 404, 725, 1500} } \cup
    { Undefined, JsNull, Bool(TRUE), Bool(FALSE), Str(""), Str("75"),
      Str(" 150 "), Str("high"), Arr(<< >>), Arr(<< Num(404) >>),
      Arr(<< Num(10), Num(20) >>), Obj(<< >>) }

ScoreArgs == { [fn |-> "validatePriorityScore", score |-> v] : v \in ScoreValues }

ImportanceValues ==
    { Str(l) : l \in validLevels } \cup
    { Str("CRITICAL"), Str("High"), Str(" low"), Str(""), Str("urgent"),
      Undefined, JsNull, Num(10), Bool(TRUE), Arr(<< Str("high") >>) }

ImportanceArgs ==
    { [fn |-> "validateImportance", importance |-> v] : v \in ImportanceValues }

\* parseGeminiResponse(text), and parseGeminiResponse of the same text
\* inside a code fence
ApplyParse ==
    /\ fpc = "call" /\ farg.fn = "parseGeminiResponse"
    /\ fres' = parseGeminiResponse(farg.text)
    /\ fres2' = parseGeminiResponse(Fenced(farg.tag, farg.text))
    /\ fpc' = "applied"
    /\ UNCHANGED << farg, fcalls >>

\* validatePriorityScore(score)
ApplyValidateScore ==
    /\ fpc = "call" /\ farg.fn = "validatePriorityScore"
    /\ fres' = validatePriorityScore(farg.score)
    /\ fpc' = "applied"
    /\ UNCHANGED << farg, fres2, fcalls >>

\* validateImportance(importance)
ApplyValidateImportance ==
    /\ fpc = "call" /\ farg.fn = "validateImportance"
    /\ fres' = validateImportance(farg.importance)
    /\ fpc' = "applied"
    /\ UNCHANGED << farg, fres2, fcalls >>

\* the results handed to generateReport: up to MaxReport findings, scores
\* equal and different, in every order, for a scan that counted at least as
\* many broken links as it has findings and one working link
ReportFindings ==
    { [url |-> u, aiAnalysis |-> [priorityScore |-> p]] :
        u \in {"https://a.org/x", "https://a.org/y"}, p \in {40, 90} }

ReportArgs ==
    LET results ==
            { [totalLinks |-> b + 1, brokenLinksCount |-> b, brokenLinksWithAI |-> fs] :
                fs \in UNION { [1..n -> ReportFindings] : n \in 0..MaxReport },
                b \in 0..MaxReport }
    IN  { [fn |-> "generateReport", result |-> r] :
            r \in { q \in results : Len(q.brokenLinksWithAI) <= q.brokenLinksCount } }

\* generateReport(result): fres is the report, fres2 the findings as they
\* were handed in, farg.result the caller's object after the call (the sort
\* works on the copy [...result.brokenLinksWithAI])
ApplyReport ==
    /\ fpc = "call" /\ farg.fn = "generateReport"
    /\ fres' = generateReport(farg.result)
    /\ fres2' = farg.result.brokenLinksWithAI
    /\ farg' = farg
    /\ fpc' = "applied"
    /\ UNCHANGED fcalls

\* the strings handed to extractLinkText: URLs with and without a path,
\* with extensions, dashes, underscores, a query, a fragment, trailing
\* slashes, and strings new URL() rejects
LinkTextArgs ==
    { [fn |-> "extractLinkText", url |-> u] :
        u \in { "https://a.org/donate", "https://a.org/old/news/",
                "https://a.org/about-us.html", "https://a.org", "https://a.org/",
                "https://a.org//", "http://a.org/get_involved.php?x=1",
                "https://a.org/a/b-c_d.htm#top", "https://a.org/.html",
                "https://a.org/my--file.HTML", "https://a.org/x.html/",
                "https://a.org/archive.php.html", "https://a.org/file.html.bak",
                "https://a.org/-lead", "https://a.org?q=/deep/path",
                "not a url", "/relative/path.html", "" } }

\* extractLinkText(url)
ApplyLinkText ==
    /\ fpc = "call" /\ farg.fn = "extractLinkText"
    /\ fres' = extractLinkText(farg.url)
    /\ fpc' = "applied"
    /\ UNCHANGED << farg, fres2, fcalls >>

InitFun ==
    /\ FunOrchestratorIdle
    /\ fpc = "call"
    /\ farg \in HealthArgs \cup FallbackArgs \cup ParseArgs \cup ScoreArgs
                \cup ImportanceArgs \cup ReportArgs \cup LinkTextArgs
    /\ fres = Undefined
    /\ fres2 = Undefined
    /\ fcalls = 0

NextFun ==
    \/ ApplyHealthScore /\ UNCHANGED << orchVars, anVars, batchVars >>
    \/ ApplyFallback /\ UNCHANGED << orchVars, anVars, batchVars >>
    \/ ProviderCallBetween /\ UNCHANGED << orchVars, anVars, batchVars >>
    \/ ApplyFallbackAgain /\ UNCHANGED << orchVars, anVars, batchVars >>
    \/ ApplyParse /\ UNCHANGED << orchVars, anVars, batchVars >>
    \/ ApplyValidateScore /\ UNCHANGED << orchVars, anVars, batchVars >>
    \/ ApplyValidateImportance /\ UNCHANGED << orchVars, anVars, batchVars >>
    \/ ApplyReport /\ UNCHANGED << orchVars, anVars, batchVars >>
    \/ ApplyLinkText /\ UNCHANGED << orchVars, anVars, batchVars >>
    \/ ApplyHealthScoreNext /\ UNCHANGED << orchVars, anVars, batchVars >>

SpecFun == InitFun /\ [][NextFun]_vars

-----------------------------------------------------------------------------
(* GeminiLinkAnalyzer.analyzeBatch: one call, one action per awaited step *)

\* the wait between two requests, in ms
BatchDelayMs == 1000

BatchInputs == { AiInputOf(l) : l \in { l \in LinkPool : l.state = "BROKEN" } }

BatchInputArrays == UNION { [1..n -> BatchInputs] : n \in 0..MaxBatch }

\* the provider behaviours exercised inside a batch
BatchProviderOutcomes ==
    { [kind |-> "throw", text |-> ""],
      [kind |-> "text", text |-> JPartial],
      [kind |-> "text", text |-> JGarbage] }

\* the input the for-of loop is at
bindex == Len(bresults) + 1

\* for (const input of inputs): the next input, or the return after the last
BatchLoop(done) == IF done < Len(binputs) THEN "analyze" ELSE "return"

InitBatch ==
    /\ OrchestratorIdle /\ AnalyzerIdle /\ FunIdle
    /\ binputs \in BatchInputArrays
    /\ bresults = << >>
    /\ blog = << >>
    /\ bpc = BatchLoop(0)

\* lines 428-430: analyzeContext(input) is called; it reaches the provider
BStart ==
    /\ bpc = "analyze"
    /\ blog' = Append(blog, [ev |-> "start", k |-> bindex, resp |-> Undefined, ms |-> 0])
    /\ bpc' = "awaiting"
    /\ UNCHANGED << binputs, bresults >>

\* a finish that goes on to the next input without waiting
BFinishNoWait ==
    /\ bpc = "awaiting"
    /\ \E resp \in BatchProviderOutcomes :
         LET result == analyzeContext(binputs[bindex], resp)
         IN  /\ blog' = Append(blog, [ev |-> "end", k |-> bindex, resp |-> resp, ms |-> 0])
             /\ bresults' = Append(bresults, result.value)
             /\ bpc' = BatchLoop(bindex)
    /\ UNCHANGED binputs

\* lines 430-431 and 437-443: the awaited analyzeContext settles; its result
\* is pushed, or the catch pushes the fallback and the wait is skipped
BFinish ==
    /\ bpc = "awaiting"
    /\ \E resp \in BatchProviderOutcomes :
         LET result == analyzeContext(binputs[bindex], resp)
         IN  /\ blog' = Append(blog, [ev |-> "end", k |-> bindex, resp |-> resp, ms |-> 0])
             /\ IF result.threw
                THEN /\ bresults' = Append(bresults, getFallbackAnalysis(binputs[bindex]))
                     /\ bpc' = BatchLoop(bindex)
                ELSE /\ bresults' = Append(bresults, result.value)
                     /\ bpc' = IF Len(binputs) > 1 THEN "delay" ELSE BatchLoop(bindex)
    /\ UNCHANGED binputs

\* lines 434-436: await new Promise((resolve) => setTimeout(resolve, 1000))
BDelay ==
    /\ bpc = "delay"
    /\ blog' = Append(blog, [ev |-> "delay", k |-> Len(bresults), resp |-> Undefined,
                              ms |-> BatchDelayMs])
    /\ bpc' = BatchLoop(Len(bresults))
    /\ UNCHANGED << binputs, bresults >>

\* line 446: return results
BReturn ==
    /\ bpc = "return"
    /\ bpc' = "returned"
    /\ UNCHANGED << binputs, bresults, blog >>

NextBatch ==
    \/ BStart /\ UNCHANGED << orchVars, anVars, funVars >>
    \/ BFinish /\ UNCHANGED << orchVars, anVars, funVars >>
    \/ BDelay /\ UNCHANGED << orchVars, anVars, funVars >>
    \/ BReturn /\ UNCHANGED << orchVars, anVars, funVars >>

SpecBatch == InitBatch /\ [][NextBatch]_vars

-----------------------------------------------------------------------------
(* PROPERTIES *)

Done == pc = "done"

CrawlSucceeded == hist.crawlCalls = 1 /\ "check" \notin hist.thrown

\* the indices of the broken links whose step threw, taken where the throw
\* happens: a throwing persistence call or the throwing fixes mapping
StepThrewAt == hist.persistThrewAt \cup hist.mapThrewAt

\* the URLs of links[from..], those at the indices in skip left out
RECURSIVE UrlsExcept(_, _, _)
UrlsExcept(links, from, skip) ==
    IF from > Len(links) THEN << >>
    ELSE (IF from \in skip THEN << >> ELSE << links[from].url >>)
         \o UrlsExcept(links, from + 1, skip)

FindingUrls == [k \in 1..Len(brokenLinksWithAI) |-> brokenLinksWithAI[k].url]

\* C1 (as amended): per-link failure isolation. Whatever createBrokenLink,
\* updateBrokenLinkWithAI or the fixes mapping throw for single links, a run
\* whose crawl succeeded always calls completeScanResult exactly once, it
\* rejects only if completeScanResult itself throws, and when it returns the
\* scan record is completed and the findings are exactly those of the broken
\* links whose step did not throw, in crawl order.
C1_PerLinkIsolation ==
    /\ (Done /\ outcome.kind = "returned") =>
          /\ scan.status = "completed"
          /\ FindingUrls = UrlsExcept(brokenLinks, 1, StepThrewAt)
          /\ outcome.result.brokenLinksWithAI = brokenLinksWithAI
    /\ (CrawlSucceeded /\ pc \in {"failWrite", "done"}) => hist.completeCalls = 1
    /\ (Done /\ CrawlSucceeded /\ "completeScanResult" \notin hist.thrown) =>
          outcome.kind = "returned"

\* C1 witness: three broken links, persisting the second one threw, the scan
\* returned the findings of links 1 and 3
C1_Witness ==
    /\ Done /\ outcome.kind = "returned"
    /\ Len(brokenLinks) = 3
    /\ hist.persistThrewAt = {2}
    /\ Len(brokenLinksWithAI) = 2

\* C1 as stated: whenever persisting some link throws, the call still returns
\* (does not reject), the scan ends completed and the findings are exactly
\* those of the links whose step did not throw
C1_Original ==
    (Done /\ hist.persistThrewAt # {}) =>
        /\ outcome.kind = "returned"
        /\ scan.status = "completed"
        /\ hist.completeCalls = 1
        /\ FindingUrls = UrlsExcept(brokenLinks, 1, StepThrewAt)

\* the analysis is the fallback analysis of the link's input, the archived URL
\* prepended to its suggestedFixes when the archive lookup found one
CarriesFallback(analysis, l) ==
    LET fallback == getFallbackAnalysis(AiInputOf(l))
    IN  \/ analysis = fallback
        \/ /\ includeWayback
           /\ analysis = Unshift(fallback, Str(WaybackUrl(l.url)))

\* C2 as stated: when the AI provider call throws for some of the broken
\* links and nothing else throws (every persistence call succeeds), the call
\* returns one finding per broken link, the findings of the links whose AI
\* call threw carry getFallbackAnalysis of the link's input, and the scan
\* ends completed
C2_Original ==
    (Done /\ hist.thrown = {"generateContent"}) =>
        /\ outcome.kind = "returned"
        /\ scan.status = "completed"
        /\ Len(brokenLinksWithAI) = Len(brokenLinks)
        /\ \A k \in hist.aiThrewAt :
              CarriesFallback(brokenLinksWithAI[k].aiAnalysis, brokenLinks[k])

\* C3 as stated: once a run whose createScanResult succeeded has returned or
\* rejected, the scan record is completed or failed
C3_Original ==
    (Done /\ "createScanResult" \notin hist.thrown) =>
        scan.status \in {"completed", "failed"}

\* C4: terminal scan states are exclusive and final. After its creation the
\* scan record is written at most once in a run, and a record that is
\* completed or failed is never changed again.
C4_TerminalFinal ==
    [][ /\ hist'.scanWrites <= 1
        /\ scan.status \in {"completed", "failed"} => scan' = scan ]_vars

\* C4 witness: completeScanResult was attempted and threw, and the failure
\* update then wrote the record: two attempts, one write
C4_Witness ==
    /\ Done
    /\ hist.completeCalls = 1 /\ hist.failWrites = 1
    /\ scan.status = "failed"
    /\ hist.scanWrites = 1

\* C5 as stated: when the crawl throws, the scan record is marked failed with
\* the crawl error's message, the call rejects, completeScanResult is never
\* called, no AI or archive call is made and no broken-link record is created
C5_Original ==
    (Done /\ "check" \in hist.thrown) =>
        /\ scan.status = "failed"
        /\ scan.error_message = Str(ErrCrawl.message)
        /\ outcome.kind = "rejected"
        /\ hist.completeCalls = 0
        /\ hist.aiCalls = 0 /\ hist.waybackCalls = 0
        /\ hist.createLinkCalls = 0 /\ dbLinks = << >>

\* C6 as stated: when the crawl or the finalization write fails with E, the
\* call rejects with E itself, whatever the write that marks the scan failed
\* does
C6_Original ==
    /\ (Done /\ "check" \in hist.thrown) => outcome = Rejected(ErrCrawl)
    /\ (Done /\ "completeScanResult" \in hist.thrown) => outcome = Rejected(ErrComplete)

\* C7: when createScanResult throws, the call rejects at once with that
\* error: no crawl, no AI, archive or persistence call, and no write that
\* marks a scan failed
C7_CreateScanFailureIsImmediate ==
    "createScanResult" \in hist.thrown =>
        /\ Done
        /\ outcome = Rejected(ErrCreateScan)
        /\ hist.crawlCalls = 0 /\ hist.aiCalls = 0 /\ hist.waybackCalls = 0
        /\ hist.createLinkCalls = 0 /\ hist.updateLinkCalls = 0
        /\ hist.completeCalls = 0 /\ hist.failWrites = 0
        /\ scan = NoScan /\ dbLinks = << >>

C7_Witness == Done /\ "createScanResult" \in hist.thrown

\* C8 as stated: when completeScanResult throws, the call returns no result:
\* it marks the scan record failed with that error's message and rejects
C8_Original ==
    (Done /\ "completeScanResult" \in hist.thrown) =>
        /\ outcome.kind = "rejected"
        /\ scan.status = "failed"
        /\ scan.error_message = Str(ErrComplete.message)

\* whether the response text, code fences removed, is JSON
ParsesAsJson(resp) == JSONParse(StripFences(resp.text)).ok

\* C9 (as amended): analyzeContext never throws; it returns
\* getFallbackAnalysis(input) exactly when the provider call throws, the
\* response text fails to parse as JSON, or the text parses to the JSON value
\* null; in every other case it returns the validated AI analysis.
C9_FallbackExactly ==
    apc \in {"returned", "rejected"} =>
        /\ apc = "returned" /\ ~aresult.threw
        /\ aresult.viaFallback <=>
              \/ aresp.kind = "throw"
              \/ ~ParsesAsJson(aresp)
              \/ JSONParse(StripFences(aresp.text)).v = JsNull
        /\ aresult.viaFallback => aresult.value = getFallbackAnalysis(ainput)
        /\ ~aresult.viaFallback => aresult.value = validateAnalysis(aparsed.value)

\* C9 witness: the provider answered with the JSON text null and the call
\* returned the fallback analysis
C9_Witness ==
    /\ apc = "returned"
    /\ aresp.kind = "text" /\ aresp.text = JNull
    /\ aresult.viaFallback

\* C9 as stated: the fallback is used when the provider call throws or the
\* text fails to parse as JSON, and in no other case
C9_Original ==
    apc \in {"returned", "rejected"} =>
        /\ apc = "returned"
        /\ aresult.viaFallback <=> (aresp.kind = "throw" \/ ~ParsesAsJson(aresp))
        /\ aresult.viaFallback => aresult.value = getFallbackAnalysis(ainput)

\* C10: every analysis analyzeContext returns, from the AI path or from the
\* fallback, has an importance among critical, high, medium, low, an integer
\* priorityScore in 0..100 and at most 3 suggestedFixes
C10_AnalysisInvariant ==
    apc = "returned" =>
        /\ aresult.value.importance \in validLevels
        /\ aresult.value.priorityScore \in 0..100
        /\ Len(aresult.value.suggestedFixes) <= 3

\* C10 witness: an AI answer with four suggested fixes and priorityScore 72.5
\* was returned with three fixes and score 73
C10_Witness ==
    /\ apc = "returned"
    /\ aresp.kind = "text" /\ aresp.text = JMany
    /\ ~aresult.viaFallback
    /\ Len(aresult.value.suggestedFixes) = 3
    /\ aresult.value.priorityScore = 73

\* C11 as stated: every finding of the result and every suggested_fixes list
\* persisted through updateBrokenLinkWithAI has at most 3 entries, with the
\* archive lookup enabled or disabled
C11_Original ==
    /\ \A k \in 1..Len(brokenLinksWithAI) :
          Len(brokenLinksWithAI[k].aiAnalysis.suggestedFixes) <= 3
    /\ \A k \in 1..Len(dbLinks) :
          dbLinks[k].suggested_fixes.t = "array" =>
              Len(dbLinks[k].suggested_fixes.a) <= 3

Applied(fn) == fpc \in {"applied", "appliedTwice"} /\ farg.fn = fn

\* the integers nearest to num / den (den > 0): two of them at a half
NearestTo(num, den) ==
    { r \in -2000..2000 : 2 * den * r - den <= 2 * num /\ 2 * num <= 2 * den * r + den }

Clamp(lo, hi, n) == IF n < lo THEN lo ELSE IF n > hi THEN hi ELSE n

\* C12: calculateHealthScore(total, broken) is 100 when total = 0, whatever
\* broken is, and otherwise round((1 - broken/total) * 100) clamped to
\* [0,100]; (10,1) gives 90, (10,10) gives 0, (3,1) gives 67, and the result
\* is an integer in 0..100 whenever 0 <= broken <= total
C12_HealthScore ==
    Applied("calculateHealthScore") =>
        LET total == farg.totalLinks
            broken == farg.brokenLinks
        IN  /\ total = 0 => fres = 100
            /\ total > 0 =>
                  \E r \in NearestTo(100 * (total - broken), total) :
                      fres = Clamp(0, 100, r)
            /\ (total = 10 /\ broken = 1) => fres = 90
            /\ (total = 10 /\ broken = 10) => fres = 0
            /\ (total = 3 /\ broken = 1) => fres = 67
            /\ broken <= total => fres \in 0..100

\* C12 witness: 3 links, 1 broken, score 67
C12_Witness ==
    /\ Applied("calculateHealthScore")
    /\ farg.totalLinks = 3 /\ farg.brokenLinks = 1
    /\ fres = 67

\* the link text of a fallback input ("" when absent), and whether the text
\* or the URL contains a keyword, letter case ignored
TextOf(input) == IF input.linkText.t = "string" THEN input.linkText.s ELSE ""

TextHas(input, kw) == Includes(ToLowerCase(TextOf(input)), kw)

UrlHas(input, kw) == Includes(ToLowerCase(input.brokenUrl), kw)

\* the rows of the fallback table as the code tests them
DonateRow(input) ==
    TextHas(input, "donate") \/ TextHas(input, "donation") \/ UrlHas(input, "/donate")

ContactRow(input) ==
    TextHas(input, "contact") \/ TextHas(input, "apply") \/ TextHas(input, "register")

ProgramRow(input) ==
    TextHas(input, "program") \/ TextHas(input, "service") \/ TextHas(input, "about")

ArchiveRow(input) ==
    TextHas(input, "archive") \/ UrlHas(input, "/archive/") \/ UrlHas(input, "/old/")

FallbackClass == << fres.importance, fres.priorityScore >>

\* C13: getFallbackAnalysis classifies by the first matching row, letter case
\* ignored: donate row (critical, 95), then contact row (critical, 90), then
\* program row (high, 70), then archive row (low, 25), else (medium, 50); an
\* input matching several rows gets the earliest row's result
C13_FallbackPrecedence ==
    Applied("getFallbackAnalysis") =>
        LET x == farg.input
        IN  /\ DonateRow(x) => FallbackClass = << "critical", 95 >>
            /\ (~DonateRow(x) /\ ContactRow(x)) => FallbackClass = << "critical", 90 >>
            /\ (~DonateRow(x) /\ ~ContactRow(x) /\ ProgramRow(x)) =>
                  FallbackClass = << "high", 70 >>
            /\ (~DonateRow(x) /\ ~ContactRow(x) /\ ~ProgramRow(x) /\ ArchiveRow(x)) =>
                  FallbackClass = << "low", 25 >>
            /\ (~DonateRow(x) /\ ~ContactRow(x) /\ ~ProgramRow(x) /\ ~ArchiveRow(x)) =>
                  FallbackClass = << "medium", 50 >>

\* C13 witness: a link text matching the contact row and the donate row, in
\* capitals, classified by the donate row
C13_Witness ==
    /\ Applied("getFallbackAnalysis")
    /\ farg.input.linkText = Str("Contact our donation desk")
    /\ farg.input.brokenUrl = "https://a.org/x"
    /\ FallbackClass = << "critical", 95 >>

\* the keyword occurs in the link text or in the broken URL
Mentions(input, kw) == TextHas(input, kw) \/ UrlHas(input, kw)

\* C14 as stated: every keyword row matches when its keyword occurs in the
\* link text or in the broken URL: with no earlier row matching, a URL
\* containing contact, apply or register gives (critical, 90) and one
\* containing program, service or about gives (high, 70), also when the link
\* text is absent
C14_Original ==
    Applied("getFallbackAnalysis") =>
        LET x == farg.input
            contact == Mentions(x, "contact") \/ Mentions(x, "apply")
                       \/ Mentions(x, "register")
            program == Mentions(x, "program") \/ Mentions(x, "service")
                       \/ Mentions(x, "about")
        IN  /\ (~DonateRow(x) /\ contact) => FallbackClass = << "critical", 90 >>
            /\ (~DonateRow(x) /\ ~contact /\ program) => FallbackClass = << "high", 70 >>

CutAtLastSlash(s) ==
    IF \E k \in 1..Len(s) : CharAt(s, k) = "/"
    THEN LET k == CHOOSE k \in 1..Len(s) :
                     /\ CharAt(s, k) = "/"
                     /\ \A m \in (k + 1)..Len(s) : CharAt(s, m) # "/"
         IN  SubSeq(s, 1, k - 1)
    ELSE s

JsonOf(resp) == JSONParse(StripFences(resp.text)).v

Absent(v, field) == field \notin DOMAIN v.o

\* the field is present and holds a non-empty string
ValidText(v, field) ==
    field \in DOMAIN v.o /\ v.o[field].t = "string" /\ v.o[field].s # ""

\* the named defaults of the text fields
TextDefaults ==
    ("intendedDestination" :> "Unknown") @@ ("linkPurpose" :> "Unknown") @@
    ("businessImpact" :> "Unknown impact") @@ ("reasoning" :> "No reasoning provided")

\* the text fields of the returned analysis, by name
TextField(analysis, field) ==
    CASE field = "intendedDestination" -> analysis.intendedDestination
      [] field = "linkPurpose"         -> analysis.linkPurpose
      [] field = "businessImpact"      -> analysis.businessImpact
      [] field = "reasoning"           -> analysis.reasoning

C19_Validators ==
    /\ Applied("validatePriorityScore") =>
          LET num == ToNumber(farg.score)
          IN  /\ num.nan => fres = 50
              /\ (~num.nan /\ num.n10 < 0) => fres = 0
              /\ (~num.nan /\ num.n10 > 1000) => fres = 100
              /\ (~num.nan /\ num.n10 \in 0..1000) => fres \in NearestTo(num.n10, 10)
    /\ Applied("validateImportance") =>
          IF farg.importance \in { Str(l) : l \in {"critical", "high", "medium", "low"} }
          THEN Str(fres) = farg.importance
          ELSE fres = "medium"

\* C19 witness: the string " 150 " is coerced to 150 and clamped to 100
C19_Witness ==
    /\ Applied("validatePriorityScore")
    /\ farg.score = Str(" 150 ")
    /\ fres = 100

\* the events of a whole batch over n inputs: call k starts, call k ends, and
\* with more than one input a wait follows
RECURSIVE ExpectedEvents(_, _)
ExpectedEvents(from, n) ==
    IF from > n THEN << >>
    ELSE << << "start", from >>, << "end", from >> >>
         \o (IF n > 1 THEN << << "delay", from >> >> ELSE << >>)
         \o ExpectedEvents(from + 1, n)

BatchEvents == [p \in 1..Len(blog) |-> << blog[p].ev, blog[p].k >>]

IsPrefix(a, b) == Len(a) <= Len(b) /\ a = SubSeq(b, 1, Len(a))

\* the provider's behaviour on the call for input k
BatchRespOf(k) ==
    LET p == CHOOSE q \in 1..Len(blog) : blog[q].ev = "end" /\ blog[q].k = k
    IN  blog[p].resp

\* C20: analyzeBatch handles its inputs one after the other in input order
\* (the call for an input starts only after the call for the one before has
\* ended), never throws, and returns a list as long as the inputs whose k-th
\* element is the analysis of the k-th input; with more than one input a
\* wait of 1000 ms lies between every two consecutive AI calls, with a single
\* input there is no wait
C20_Batch ==
    /\ bpc \in {"idle", "analyze", "awaiting", "delay", "return", "returned"}
    /\ IsPrefix(BatchEvents, ExpectedEvents(1, Len(binputs)))
    /\ \A p \in 1..Len(blog) : blog[p].ev = "delay" => blog[p].ms = 1000
    /\ \A p \in 2..Len(blog) :
          (blog[p].ev = "start" /\ Len(binputs) > 1) =>
              /\ blog[p - 1].ev = "delay" /\ blog[p - 1].ms = 1000
              /\ blog[p - 2].ev = "end" /\ blog[p - 2].k = blog[p].k - 1
    /\ Len(binputs) = 1 => \A p \in 1..Len(blog) : blog[p].ev # "delay"
    /\ bpc = "returned" =>
          /\ BatchEvents = ExpectedEvents(1, Len(binputs))
          /\ Len(bresults) = Len(binputs)
          /\ \A k \in 1..Len(binputs) :
                bresults[k] = analyzeContext(binputs[k], BatchRespOf(k)).value

\* C20 witness: two inputs, the provider threw on the first call and answered
\* on the second; two results, the first one the fallback, a wait after each
\* call
C20_Witness ==
    /\ bpc = "returned"
    /\ Len(binputs) = 2 /\ binputs[1] # binputs[2]
    /\ BatchRespOf(1).kind = "throw" /\ BatchRespOf(2).text = JPartial
    /\ bresults[1] = getFallbackAnalysis(binputs[1])
    /\ bresults[2].importance = "high"
    /\ Len(blog) = 6


-----------------------------------------------------------------------------
(* ARCHIVE LOOKUP IN THE SCAN *)

\* the analyses analyzeContext can hand back for a link
AnalyzerOutputs(l) ==
    { analyzeContext(AiInputOf(l), resp).value : resp \in ScanProviderOutcomes }

\* the responses the lookup answers with no result: transport failure,
\* non-success status, a missing archived_snapshots / closest / url field,
\* available = false
NoResultCase(resp) ==
    LET snapshots == Get(resp.data, "archived_snapshots")
        closest   == OptGet(snapshots, "closest")
    IN  \/ resp.kind = "throw"
        \/ ~resp.ok
        \/ snapshots = Undefined
        \/ closest = Undefined
        \/ OptGet(closest, "url") = Undefined
        \/ OptGet(closest, "available") = Bool(FALSE)

\* the finding a step appends
Pushed == Len(brokenLinksWithAI') = Len(brokenLinksWithAI) + 1

LastFinding == brokenLinksWithAI'[Len(brokenLinksWithAI')]

\* C21: checkWaybackMachine never throws and never aborts the scan: every
\* no-result response (transport failure, non-success, missing field,
\* available = false) yields null, the lookup step always goes on to
\* createBrokenLink with nothing thrown, a no-result lookup leaves the analysis
\* as the analyzer returned it, and the finding pushed after it is the finding
\* a run with archive lookup disabled pushes.
C21_LookupNeverAborts ==
    [][ /\ pc = "wayback" =>
             /\ \A r \in WaybackResponses(link.url) :
                    NoResultCase(r) => checkWaybackMachine(r) = JsNull
             /\ pc' = "createLink"
             /\ hist'.thrown = hist.thrown
             /\ hist'.faults = hist.faults
             /\ error' = error /\ outcome' = outcome
             /\ hist'.lookup = "noResult" => aiAnalysis' = aiAnalysis
        /\ (Pushed /\ hist.lookup = "noResult") =>
             \E a \in AnalyzerOutputs(link) :
                LastFinding = FindingOf(link, a, recId)
      ]_vars

\* a scan with lookup enabled returned a finding whose analysis is the
\* analyzer's own: the lookup for that link gave no result
C21_Witness ==
    /\ includeWayback
    /\ outcome.kind = "returned"
    /\ hist.waybackCalls >= 1
    /\ \E k \in 1..Len(brokenLinksWithAI), j \in 1..Len(brokenLinks) :
          /\ brokenLinks[j].url = brokenLinksWithAI[k].url
          /\ brokenLinksWithAI[k].aiAnalysis \in AnalyzerOutputs(brokenLinks[j])

\* C22: when the lookup returns a URL for a broken link, the finding's
\* suggestedFixes is that URL followed by the analyzer's suggestions in their
\* order; with lookup disabled the archive service is never called and the
\* finding's analysis is the analyzer's.
C22_ArchiveFirst ==
    [][ /\ (Pushed /\ hist.lookup = "found") =>
             \E a \in AnalyzerOutputs(link) :
                /\ LastFinding.aiAnalysis.suggestedFixes =
                       << Str(WaybackUrl(link.url)) >> \o a.suggestedFixes
                /\ LastFinding.aiAnalysis =
                       [a EXCEPT !.suggestedFixes = LastFinding.aiAnalysis.suggestedFixes]
        /\ ~includeWayback =>
             /\ hist'.waybackCalls = 0
             /\ pc' # "wayback"
             /\ Pushed => LastFinding.aiAnalysis \in AnalyzerOutputs(link)
      ]_vars

\* a finding that starts with the archived copy and goes on with the
\* analyzer's three suggestions
C22_Witness ==
    /\ includeWayback
    /\ \E k \in 1..Len(brokenLinksWithAI) :
          LET fixes == brokenLinksWithAI[k].aiAnalysis.suggestedFixes
          IN  /\ Len(fixes) = 4
              /\ fixes[1] = Str(WaybackUrl(brokenLinksWithAI[k].url))
              /\ SubSeq(fixes, 2, 4) = << Str("https://a.org/give"),
                                          Str("https://a.org/"), Str("/help") >>

-----------------------------------------------------------------------------
(* RATE LIMITING AND SEQUENCING OF THE SCAN *)

\* C23 (as stated): once the loop has moved past a broken link that is not
\* the last one, the 1000 ms wait after that link's step has occurred,
\* whether the step succeeded or threw and was skipped.
C23_Original ==
    \A k \in 1..(Len(brokenLinks) - 1) :
        (pc \notin {"createScan", "crawl"} /\ i > k) => k \in hist.delayAfter

\* the external operations observed so far: crawl, AI calls, archive lookups,
\* persistence calls and waits
OpsDone(h) ==
    h.crawlCalls + h.aiCalls + h.waybackCalls + h.createLinkCalls
    + h.updateLinkCalls + h.completeCalls + h.failWrites
    + Cardinality(h.delayAfter)

InLinkStep == pc \in {"analyze", "wayback", "createLink", "updateLink", "delay"}

\* the step of link i runs only when the steps of links 1..i-1 are over:
\* each of them pushed its finding or was skipped, one AI call was made per
\* link begun, and the step's locals are those of link i alone
StepsInSequence ==
    InLinkStep =>
        /\ i \in 1..Len(brokenLinks)
        /\ hist.aiCalls = (IF pc = "analyze" THEN i - 1 ELSE i)
        /\ hist.updateLinkCalls <= hist.createLinkCalls
        /\ hist.createLinkCalls <= hist.aiCalls
        /\ hist.waybackCalls <= hist.aiCalls
        /\ Len(brokenLinksWithAI) + Cardinality(StepThrewAt)
             = (IF pc = "delay" THEN i ELSE i - 1)
        /\ pc = "analyze" => (aiAnalysis = Undefined /\ recId = 0)

\* C24: within one scan no two external operations overlap: every step of
\* the scan carries out at most one of crawl, AI call, archive lookup,
\* persistence call or wait, createScanResult runs alone, and the step of
\* broken link i+1 starts only after the step of link i has finished
\* (pushed its finding or been skipped).
C24_NoOverlap ==
    /\ []StepsInSequence
    /\ [][ /\ OpsDone(hist') - OpsDone(hist) \in {0, 1}
           /\ pc = "createScan" => OpsDone(hist') = OpsDone(hist)
           /\ (i' # i /\ pc # "crawl") =>
                 /\ i' = i + 1
                 /\ pc \in {"analyze", "createLink", "updateLink", "delay"}
                 /\ pc' \in {"analyze", "complete"}
         ]_vars

\* the first link's step is over (finding pushed, wait done) and the second
\* link's step has made its AI call and is at the archive lookup
C24_Witness ==
    /\ pc = "wayback"
    /\ i = 2
    /\ Len(brokenLinksWithAI) = 1
    /\ hist.delayAfter = {1}
    /\ hist.aiCalls = 2

-----------------------------------------------------------------------------
(* WHAT THE GATEWAY HOLDS FOR A FINDING *)

\* the record with the given id among those read back for the scan
ReadBack(dbId) ==
    LET rows == getBrokenLinksByScanId(dbLinks)
        k    == CHOOSE j \in 1..Len(rows) : rows[j].id = dbId
    IN  rows[k].row

\* C25: for every finding of the result, the record read back through
\* getBrokenLinksByScanId under the finding's dbId holds the finding's
\* analysis: the five ai_analysis fields, the suggested-fix URLs in the same
\* order, priority_score = priorityScore and is_critical = (importance is
\* critical).
C25_RoundTrip ==
    \A k \in 1..Len(brokenLinksWithAI) :
        LET f == brokenLinksWithAI[k]
            a == f.aiAnalysis
        IN  /\ f.dbId \in 1..Len(dbLinks)
            /\ LET row == ReadBack(f.dbId)
               IN  /\ Get(row.ai_analysis, "intendedDestination") = a.intendedDestination
                   /\ Get(row.ai_analysis, "linkPurpose") = a.linkPurpose
                   /\ Get(row.ai_analysis, "importance") = Str(a.importance)
                   /\ Get(row.ai_analysis, "businessImpact") = a.businessImpact
                   /\ Get(row.ai_analysis, "reasoning") = a.reasoning
                   /\ row.suggested_fixes.t = "array"
                   /\ [j \in 1..Len(row.suggested_fixes.a) |->
                          row.suggested_fixes.a[j].url] = a.suggestedFixes
                   /\ row.priority_score = Whole(a.priorityScore)
                   /\ row.is_critical = (a.importance = "critical")

\* a returned scan with two findings, one of them with the archived copy in
\* front of three suggestions, and a record of the scan that has no finding
C25_Witness ==
    /\ outcome.kind = "returned"
    /\ Len(brokenLinksWithAI) = 2
    /\ Len(dbLinks) = 3
    /\ \E k \in 1..2 : Len(brokenLinksWithAI[k].aiAnalysis.suggestedFixes) = 4
    /\ brokenLinksWithAI[2].dbId = 3

-----------------------------------------------------------------------------
(* THE REPORT *)

\* C26: generateReport lists the findings in descending priorityScore order,
\* findings of equal priorityScore in their order in result.brokenLinksWithAI;
\* the listing is the one generateReport gives for that input, and
\* result.brokenLinksWithAI is after the call what it was before.
C26_ReportOrder ==
    Applied("generateReport") =>
        LET given  == fres2
            n      == Len(given)
        IN  /\ farg.result.brokenLinksWithAI = given
            /\ fres = generateReport([farg.result EXCEPT !.brokenLinksWithAI = given])
            /\ Len(fres.entries) = n
            /\ \A k \in 1..n : fres.entries[k].number = k
            /\ \A j, k \in 1..n :
                  j < k => fres.entries[j].priorityScore >= fres.entries[k].priorityScore
            /\ \E p \in [1..n -> 1..n] :
                  /\ \A j, k \in 1..n : j # k => p[j] # p[k]
                  /\ \A k \in 1..n :
                        /\ fres.entries[k].url = given[p[k]].url
                        /\ fres.entries[k].priorityScore = given[p[k]].aiAnalysis.priorityScore
                  /\ \A j, k \in 1..n :
                        (j < k /\ fres.entries[j].priorityScore = fres.entries[k].priorityScore)
                            => p[j] < p[k]

\* a report of three findings handed in as low, high, low: the high one is
\* listed first and the two equal ones keep their order
C26_Witness ==
    /\ Applied("generateReport")
    /\ Len(fres2) = 3
    /\ fres2[1].aiAnalysis.priorityScore = 40
    /\ fres2[2].aiAnalysis.priorityScore = 90
    /\ fres2[3].aiAnalysis.priorityScore = 40
    /\ fres2[1].url # fres2[3].url
    /\ fres.entries[1].url = fres2[2].url
    /\ fres.entries[2].url = fres2[1].url
    /\ fres.entries[3].url = fres2[3].url

-----------------------------------------------------------------------------
(* LINK TEXT FROM A URL *)

\* seg is the last non-empty segment of the path: it lies between two
\* slashes (or a slash and the end), holds no slash, and only slashes follow
IsLastSegment(path, seg) ==
    \E a \in 2..Len(path) :
        LET b == a + Len(seg) - 1
        IN  /\ seg # ""
            /\ b <= Len(path)
            /\ SubSeq(path, a, b) = seg
            /\ CharAt(path, a - 1) = "/"
            /\ \A k \in a..b : CharAt(path, k) # "/"
            /\ \A k \in (b + 1)..Len(path) : CharAt(path, k) = "/"

HasSegment(path) ==
    \E k \in 1..Len(path) : CharAt(path, k) # "/"

\* the text is the segment with a trailing .html / .htm / .php removed, each
\* "-" and "_" a space, and the first letter of each word in upper case
IsTitleOf(text, seg) ==
    LET stem == IF EndsWith(seg, ".html") THEN SubSeq(seg, 1, Len(seg) - 5)
                ELSE IF EndsWith(seg, ".htm") \/ EndsWith(seg, ".php")
                     THEN SubSeq(seg, 1, Len(seg) - 4)
                ELSE seg
        Spaced(k) == IF CharAt(stem, k) \in {"-", "_"} THEN " " ELSE CharAt(stem, k)
    IN  /\ Len(text) = Len(stem)
        /\ \A k \in 1..Len(stem) :
              CharAt(text, k) =
                  IF k = 1 \/ Spaced(k - 1) = " "
                  THEN UpperChar(Spaced(k)) ELSE Spaced(k)

\* C28: extractLinkText never throws: it returns "Link" for a URL that
\* cannot be parsed, "Home" for a parsable URL whose path has no non-empty
\* segment, and otherwise the last non-empty path segment with a trailing
\* .html/.htm/.php removed, "-" and "_" replaced by spaces and the first
\* letter of each word upper-cased.
C28_LinkText ==
    Applied("extractLinkText") =>
        IF ~UrlParses(farg.url) THEN fres = "Link"
        ELSE IF ~HasSegment(UrlPathname(farg.url)) THEN fres = "Home"
        ELSE \E a \in 2..Len(farg.url), b \in 2..Len(farg.url) :
                LET seg == SubSeq(farg.url, a, b)
                IN  /\ IsLastSegment(UrlPathname(farg.url), seg)
                    /\ IsTitleOf(fres, seg)

\* a segment with an underscore and an extension, followed by a query
C28_Witness ==
    /\ Applied("extractLinkText")
    /\ farg.url = "http://a.org/get_involved.php?x=1"
    /\ fres = "Get Involved"

-----------------------------------------------------------------------------
(* THE FLAGS OF AN UPDATED RECORD *)

\* the record was updated with an analysis
Updated(row) == row.ai_analysis # JsNull

\* C27: every broken-link record the orchestrator updates gets
\* is_critical = TRUE exactly when the analysis importance is "critical" and
\* priority_score = the analysis priorityScore; the update touches that
\* record alone, and every updated record keeps the flag and the score of its
\* stored analysis.
C27_CriticalFlag ==
    /\ [][ (pc = "updateLink" /\ dbLinks' # dbLinks) =>
              /\ Len(dbLinks') = Len(dbLinks)
              /\ \A k \in 1..Len(dbLinks) : k # recId => dbLinks'[k] = dbLinks[k]
              /\ Updated(dbLinks'[recId])
              /\ dbLinks'[recId].is_critical = (aiAnalysis.importance = "critical")
              /\ dbLinks'[recId].priority_score = Whole(aiAnalysis.priorityScore)
         ]_vars
    /\ [](\A k \in 1..Len(dbLinks) :
            IF Updated(dbLinks[k])
            THEN /\ dbLinks[k].is_critical =
                        (Get(dbLinks[k].ai_analysis, "importance") = Str("critical"))
                 /\ dbLinks[k].priority_score.t = "number"
            ELSE /\ dbLinks[k].is_critical = FALSE
                 /\ dbLinks[k].priority_score = JsNull)

\* one record updated as critical with score 97, one updated as not critical
C27_Witness ==
    /\ \E k \in 1..Len(dbLinks) :
          /\ Updated(dbLinks[k])
          /\ dbLinks[k].is_critical
          /\ dbLinks[k].priority_score = Whole(97)
    /\ \E k \in 1..Len(dbLinks) :
          /\ Updated(dbLinks[k])
          /\ ~dbLinks[k].is_critical
          /\ Get(dbLinks[k].ai_analysis, "importance") # Str("critical")

-----------------------------------------------------------------------------
(* THE ORDER OF THE CALLS OF A SCAN *)

\* the calls made for single links: AI, archive lookup, record creation and
\* record update
PerLinkCalls(h) ==
    h.aiCalls + h.waybackCalls + h.createLinkCalls + h.updateLinkCalls

\* C29: createScanResult has completed when the crawl starts; the crawl has
\* completed when any AI, archive or broken-link persistence call is made;
\* completeScanResult is called at most once and only when the step of every
\* broken link has been attempted (finished or skipped); no per-link call is
\* made after completeScanResult or after the failure update.
C29_ProtocolOrder ==
    /\ [](/\ (pc = "crawl" \/ hist.crawlCalls > 0) => scan # NoScan
          /\ hist.crawlCalls <= 1
          /\ PerLinkCalls(hist) > 0 => CrawlSucceeded
          /\ hist.completeCalls <= 1
          /\ hist.failWrites <= 1
          /\ (pc = "complete" \/ hist.completeCalls = 1) =>
                /\ CrawlSucceeded
                /\ hist.aiCalls = Len(brokenLinks)
                /\ Len(brokenLinksWithAI) + Cardinality(StepThrewAt)
                      = Len(brokenLinks)
                /\ i = Len(brokenLinks) + 1)
    /\ [][ /\ (hist.completeCalls > 0 \/ hist.failWrites > 0 \/ pc = "failWrite") =>
                /\ PerLinkCalls(hist') = PerLinkCalls(hist)
                /\ hist'.crawlCalls = hist.crawlCalls
                /\ dbLinks' = dbLinks
                /\ brokenLinksWithAI' = brokenLinksWithAI
           /\ PerLinkCalls(hist') > PerLinkCalls(hist) => InLinkStep
         ]_vars

\* a scan of three broken links whose completion was called after one step
\* was skipped and two pushed their findings
C29_Witness ==
    /\ hist.completeCalls = 1
    /\ Len(brokenLinks) = 3
    /\ Len(brokenLinksWithAI) = 2
    /\ Cardinality(StepThrewAt) = 1
    /\ outcome.kind = "returned"

-----------------------------------------------------------------------------
(* A FINDING AND ITS RECORD *)

\* the record holds the analysis: the five text fields, the fixes, the score
Carries(row, a) ==
    /\ row.ai_analysis = JSONStringify(Obj(AiAnalysisForDb(a)))
    /\ row.suggested_fixes.t = "array"
    /\ Len(row.suggested_fixes.a) = Len(a.suggestedFixes)
    /\ row.priority_score = Whole(a.priorityScore)

\* C30: a finding is appended only after createBrokenLink and
\* updateBrokenLinkWithAI both succeeded for its link: the record is created
\* when the link's analysis is there, the push happens in the step in which
\* the update of that record succeeds, and every finding has a dbId of its
\* own naming a record of the scan for the finding's URL that carries the
\* finding's analysis.
C30_PushAfterPersist ==
    /\ [][ /\ Len(dbLinks') > Len(dbLinks) =>
                /\ pc = "createLink"
                /\ hist.aiCalls = i
                /\ aiAnalysis # Undefined
                /\ aiAnalysis' = aiAnalysis
                /\ recId' = Len(dbLinks')
                /\ dbLinks'[recId'].url = link.url
                /\ ~Updated(dbLinks'[recId'])
           /\ brokenLinksWithAI' # brokenLinksWithAI =>
                /\ Pushed
                /\ SubSeq(brokenLinksWithAI', 1, Len(brokenLinksWithAI)) = brokenLinksWithAI
                /\ pc = "updateLink"
                /\ recId \in 1..Len(dbLinks)
                /\ ~Updated(dbLinks[recId])
                /\ hist'.updateLinkCalls = hist.updateLinkCalls + 1
                /\ hist'.thrown = hist.thrown /\ hist'.faults = hist.faults
                /\ StepThrewAt' = StepThrewAt
                /\ LastFinding.dbId = recId
                /\ LastFinding.aiAnalysis = aiAnalysis
                /\ Carries(dbLinks'[recId], aiAnalysis)
         ]_vars
    /\ [](\A k \in 1..Len(brokenLinksWithAI) :
            LET f == brokenLinksWithAI[k]
            IN  /\ f.dbId \in 1..Len(dbLinks)
                /\ dbLinks[f.dbId].url = f.url
                /\ Updated(dbLinks[f.dbId])
                /\ Carries(dbLinks[f.dbId], f.aiAnalysis)
                /\ \A j \in 1..Len(brokenLinksWithAI) :
                      j # k => brokenLinksWithAI[j].dbId # f.dbId)

\* a returned scan with one finding, for the second record; the first record
\* was created and its update threw, so its link has no finding
C30_Witness ==
    /\ outcome.kind = "returned"
    /\ Len(brokenLinksWithAI) = 1
    /\ brokenLinksWithAI[1].dbId = 2
    /\ Len(dbLinks) = 2
    /\ ~Updated(dbLinks[1])
    /\ "updateBrokenLinkWithAI" \in hist.thrown

-----------------------------------------------------------------------------
(* THE RECORDS OF A COMPLETED SCAN *)

\* C31 (as stated): when the scan is completed, every broken-link record
\* created for it carries an analysis, and there are as many records as
\* returned findings.
C31_Original ==
    (scan.status = "completed" /\ outcome.kind = "returned") =>
        /\ \A k \in 1..Len(dbLinks) : Updated(dbLinks[k])
        /\ Len(dbLinks) = Len(outcome.result.brokenLinksWithAI)

\* C32 (as stated): when no persistence call throws, the returned result has
\* exactly one finding per broken link, whatever text the AI provider
\* returned (valid JSON, JSON whose suggestedFixes entries are not strings).
C32_Original ==
    (outcome.kind = "returned" /\ hist.thrown \subseteq {"generateContent"}) =>
        Len(outcome.result.brokenLinksWithAI) = Len(brokenLinks)

-----------------------------------------------------------------------------
(* NO NEEDLESS WAIT *)

\* the waits made so far
Waits(h) == Cardinality(h.delayAfter)

\* C33: between the steps of two consecutive broken links at most one
\* 1000 ms wait occurs, no wait occurs after the last broken link, and none
\* when the crawl found no broken link: a wait is made only from a step that
\* pushed its finding and is not the last, it is followed at once by the
\* next link's AI call, and the waits are at most one per link but the last.
C33_NoDoubleDelay ==
    /\ [][ /\ Waits(hist') - Waits(hist) \in {0, 1}
           /\ Waits(hist') > Waits(hist) =>
                 /\ pc = "delay"
                 /\ i \in 1..(Len(brokenLinks) - 1)
                 /\ i \notin hist.delayAfter
                 /\ hist'.delayAfter = hist.delayAfter \cup {i}
                 /\ pc' = "analyze" /\ i' = i + 1
           /\ pc = "analyze" => pc' # "delay"
         ]_vars
    /\ [](/\ hist.delayAfter \subseteq 1..(Len(brokenLinks) - 1)
          /\ \A k \in hist.delayAfter : k < i
          /\ Len(brokenLinks) = 0 => hist.delayAfter = {}
          /\ pc = "delay" => i < Len(brokenLinks))

\* a scan of three broken links, returned with one wait after each of the
\* first two and none after the third
C33_Witness ==
    /\ outcome.kind = "returned"
    /\ Len(brokenLinks) = 3
    /\ Len(brokenLinksWithAI) = 3
    /\ hist.delayAfter = {1, 2}

-----------------------------------------------------------------------------
(* THE FINDINGS AGAINST THE CRAWL *)

\* the findings fs name, in order, links of ls taken in increasing positions
RECURSIVE IsSubsequenceOf(_, _)
IsSubsequenceOf(fs, ls) ==
    IF fs = << >> THEN TRUE
    ELSE IF ls = << >> THEN FALSE
    ELSE IF Head(fs).url = Head(ls).url
         THEN \/ IsSubsequenceOf(Tail(fs), Tail(ls))
              \/ IsSubsequenceOf(fs, Tail(ls))
         ELSE IsSubsequenceOf(fs, Tail(ls))

\* the crawled links in state BROKEN, in crawl order
BrokenOfCrawl ==
    LET at == { k \in 1..Len(crawlLinks) : crawlLinks[k].state = "BROKEN" }
    IN  [ j \in 1..Cardinality(at) |->
            crawlLinks[CHOOSE k \in at : Cardinality({m \in at : m <= k}) = j] ]

\* C34: brokenLinksWithAI is an order-preserving subsequence of the crawl's
\* broken links: at most one finding per broken link, findings in crawl
\* order, and no finding for a link whose state is not BROKEN.
C34_Subsequence ==
    /\ IsSubsequenceOf(brokenLinksWithAI, BrokenOfCrawl)
    /\ Len(brokenLinksWithAI) <= Cardinality({ k \in 1..Len(crawlLinks) :
                                                 crawlLinks[k].state = "BROKEN" })
    /\ \A k \in 1..Len(brokenLinksWithAI) :
          /\ \E j \in 1..Len(crawlLinks) :
                /\ crawlLinks[j].url = brokenLinksWithAI[k].url
                /\ crawlLinks[j].state = "BROKEN"
          /\ \A j \in 1..Len(crawlLinks) :
                crawlLinks[j].state # "BROKEN" =>
                    crawlLinks[j].url # brokenLinksWithAI[k].url
    /\ outcome.kind = "returned" =>
          outcome.result.brokenLinksWithAI = brokenLinksWithAI

\* a crawl of a broken link, a working link and another broken link; the
\* first broken link was skipped and the result holds the second alone
C34_Witness ==
    /\ outcome.kind = "returned"
    /\ Len(crawlLinks) = 3
    /\ crawlLinks[1].state = "BROKEN"
    /\ crawlLinks[2].state = "OK"
    /\ crawlLinks[3].state = "BROKEN"
    /\ crawlLinks[1].url # crawlLinks[3].url
    /\ Len(outcome.result.brokenLinksWithAI) = 1
    /\ outcome.result.brokenLinksWithAI[1].url = crawlLinks[3].url

-----------------------------------------------------------------------------
(* THE COUNTS OF A RETURNED RESULT *)

\* C35: in every returned result totalLinks is the number of crawled links,
\* brokenLinksCount the number of them in state BROKEN,
\* brokenLinksWithAI.length <= brokenLinksCount <= totalLinks, healthScore is
\* calculateHealthScore(totalLinks, brokenLinksCount), and the scan record
\* holds the three values completeScanResult was given: the returned
\* totalLinks, brokenLinksCount and healthScore.
C35_CountsFromCrawl ==
    outcome.kind = "returned" =>
        LET r == outcome.result
        IN  /\ r.totalLinks = Len(crawlLinks)
            /\ r.brokenLinksCount =
                  Cardinality({ k \in 1..Len(crawlLinks) : crawlLinks[k].state = "BROKEN" })
            /\ Len(r.brokenLinksWithAI) <= r.brokenLinksCount
            /\ r.brokenLinksCount <= r.totalLinks
            /\ r.healthScore = calculateHealthScore(r.totalLinks, r.brokenLinksCount)
            /\ hist.completeCalls = 1
            /\ scan.status = "completed"
            /\ scan.total_links = r.totalLinks
            /\ scan.broken_links = r.brokenLinksCount
            /\ scan.health_score = Whole(r.healthScore)

\* three links crawled, two of them broken, one finding returned
C35_Witness ==
    /\ outcome.kind = "returned"
    /\ outcome.result.totalLinks = 3
    /\ outcome.result.brokenLinksCount = 2
    /\ Len(outcome.result.brokenLinksWithAI) = 1
    /\ outcome.result.healthScore = 33
    /\ scan.health_score = Whole(33)

-----------------------------------------------------------------------------
(* THE SECTIONS OF THE REPORT *)

\* C36 (as stated): the report has the "NO BROKEN LINKS FOUND / All N links
\* are working perfectly" section only for a result whose brokenLinksCount is
\* 0, and has the broken-links section whenever brokenLinksCount > 0.
C36_Original ==
    Applied("generateReport") =>
        /\ fres.section = "NO BROKEN LINKS FOUND" => farg.result.brokenLinksCount = 0
        /\ farg.result.brokenLinksCount > 0 =>
              fres.section = "BROKEN LINKS WITH AI ANALYSIS"

-----------------------------------------------------------------------------
(* THE HEALTH SCORE OVER THE BROKEN COUNT *)

\* C37: for a fixed total > 0 and 0 <= broken <= total, calculateHealthScore
\* does not grow when broken grows by one, is 100 when broken = 0 and is 0
\* when broken = total.
C37_Monotone ==
    (Applied("calculateHealthScore") /\ farg.totalLinks > 0
        /\ farg.brokenLinks <= farg.totalLinks) =>
        /\ farg.brokenLinks = 0 => fres = 100
        /\ farg.brokenLinks = farg.totalLinks => fres = 0
        /\ fpc = "appliedTwice" =>
              /\ fres2 \in 0..100
              /\ fres2 <= fres
              /\ farg.brokenLinks + 1 = farg.totalLinks => fres2 = 0

\* three links: one broken gives 67, two broken give 33
C37_Witness ==
    /\ fpc = "appliedTwice"
    /\ farg.fn = "calculateHealthScore"
    /\ farg.totalLinks = 3 /\ farg.brokenLinks = 1
    /\ fres = 67
    /\ fres2 = 33

-----------------------------------------------------------------------------
(* THE STATUS CODE OF A BROKEN LINK *)

\* the status the crawl reported, null when it reported none
CrawlStatus(l) == IF Nullish(l.status) THEN JsNull ELSE l.status

\* C38 (as stated): the status code handed to the analyzer, persisted and
\* returned for a broken link is the crawl's status for that link, null only
\* when the crawl reported no status.
C38_Original ==
    /\ InLinkStep => AiInputOf(link).statusCode = CrawlStatus(link)
    /\ \A k \in 1..Len(dbLinks), j \in 1..Len(crawlLinks) :
          crawlLinks[j].url = dbLinks[k].url =>
              dbLinks[k].status_code = CrawlStatus(crawlLinks[j])
    /\ \A k \in 1..Len(brokenLinksWithAI), j \in 1..Len(crawlLinks) :
          crawlLinks[j].url = brokenLinksWithAI[k].url =>
              brokenLinksWithAI[k].statusCode = CrawlStatus(crawlLinks[j])
=============================================================================
